---- MODULE Spec2Model ----
\* Agent coordination substrate of Dev_Suite: the capability registry
\* (AgentRegistry/agentregistry.py), the agent runtime (AgentService/baseservice.py),
\* the developer / testing workers and the manager's decision loop.
EXTENDS Integers, Sequences, FiniteSets, TLC

\* ------------------------------------------------------------------ bounds
MaxPublishes == 2
MaxTime == 150
TickStep == 30

\* ------------------------------------------------------- program constants
SWEEP_INTERVAL == 60
SWEEP_TIMEOUT == 120
DEFAULT_HEALTH_TIMEOUT == 60
MAX_GENERATION_ATTEMPTS == 5
PREFETCH_COUNT == 1

\* ------------------------------------------------------------ value spaces
RegistryNames == {"Worker1", "Worker2"}
CapLists == {<<"build">>, <<"build", "test">>}
NoCaps == <<>>
Timeouts == {0, TickStep, DEFAULT_HEALTH_TIMEOUT, SWEEP_TIMEOUT}

\* JSON bodies of the POST routes: a field may be absent, a name may be empty,
\* a capability list may be empty.
RegisterBodies ==
    [agent_name : RegistryNames \cup {""}, capabilities : CapLists \cup {NoCaps}]
        \cup [agent_name : RegistryNames]
        \cup [capabilities : CapLists]
NameBodies == [agent_name : RegistryNames \cup {""}] \cup {[other |-> "x"]}

VARIABLES
    registry,     \* CapabilityRegistry._registry: name -> [capabilities, last_heartbeat]
    now,          \* time.time()
    resp,         \* the last HTTP response of the registry service
    sweepPc,      \* auto_deregister_stale_agents: "sleep" | "unreg"
    sweepWake,    \* earliest time the pending time.sleep(interval) returns
    sweepStale,   \* stale_agents still to be unregistered by the running pass
    sweepChecked, \* time of the last check_agent_health call of the sweep, -1 if none
    queues,       \* the broker: declared queue name -> the envelopes it holds, oldest first
    started,      \* agent -> its constructor has run
    listening,    \* agent -> its listen_for_messages thread is consuming
    cbPc,         \* agent -> the consumer callback: "idle" | "handling" (in process_message)
                  \*   | "returned" (before basic_ack) | "raised" (the exception left it)
                  \*   | "abandoned" (the process exited while it was running)
    busUp,        \* the broker accepts new connections
    files,        \* the file server: project folder -> lines of its status.md
    nproj,        \* projects created so far by create_project_in_fileserver
    published,    \* envelopes published so far by clients other than the agents
    lastRun,      \* the inputs and the outcome of the last process_message call
    unacked,      \* agent -> messages the broker delivered to it and it has not acknowledged
    stopped,      \* agent -> its process has exited
    queue_name,   \* agent -> self.queue_name, the queue its listen thread consumes
    registryMode, \* the Capability Registry: "up" | "unreachable" | "error" (answers 500)
    heartbeating, \* agent -> its heartbeat_loop thread is running
    wire,         \* one envelope followed from send_message to the front end
    pending_clarification, \* the front end's pending clarification request, NoPending if none
    rtMsg,        \* retry engine: the task-assignment envelope handled
    rtGen,        \* retry engine: attempt -> generate_code_files returns files
    rtVal,        \* retry engine: attempt -> run_generated_code accepts them
    rtRun,        \* retry engine: the outcome of handling rtMsg, NoRun before
    lock,         \* CapabilityRegistry._lock: the thread holding it, "none" if free
    calls         \* registry thread -> the registry method it is executing and how far it is

busVars == <<queues, started, listening, cbPc, busUp, files, nproj, published, lastRun,
             unacked, stopped, queue_name>>
rtVars == <<rtMsg, rtGen, rtVal, rtRun>>
svcVars == <<registryMode, heartbeating, wire, pending_clarification>>
regVars == <<registry, now, resp, sweepPc, sweepWake, sweepStale, sweepChecked>>
lockVars == <<lock, calls>>

\* ------------------------------------------------------- CapabilityRegistry
Put(f, k, v) == [x \in (DOMAIN f) \cup {k} |-> IF x = k THEN v ELSE f[x]]
Remove(f, k) == [x \in (DOMAIN f) \ {k} |-> f[x]]

\* Variant: registering again keeps the capabilities the name already had.
register_merge(reg, agent_name, capabilities, t) ==
    Put(reg, agent_name,
        [capabilities |-> IF agent_name \in DOMAIN reg
                          THEN reg[agent_name].capabilities \o capabilities
                          ELSE capabilities,
         last_heartbeat |-> t])

register(reg, agent_name, capabilities, t) ==
    Put(reg, agent_name, [capabilities |-> capabilities, last_heartbeat |-> t])

\* Variant: a heartbeat for an unknown name creates a record.
heartbeat_resurrects(reg, agent_name, t) ==
    IF agent_name \in DOMAIN reg
    THEN [reg EXCEPT ![agent_name].last_heartbeat = t]
    ELSE Put(reg, agent_name, [capabilities |-> <<>>, last_heartbeat |-> t])

heartbeat(reg, agent_name, t) ==
    IF agent_name \in DOMAIN reg
    THEN [reg EXCEPT ![agent_name].last_heartbeat = t]
    ELSE reg

\* Variant: unregistering a present name drops every record.
unregister_clears(reg, agent_name) ==
    IF agent_name \in DOMAIN reg THEN [k \in {} |-> reg[k]] ELSE reg

\* Variant: unregistering leaves the record in place.
unregister_keeps(reg, agent_name) == reg

unregister(reg, agent_name) ==
    IF agent_name \in DOMAIN reg THEN Remove(reg, agent_name) ELSE reg

get_capabilities(reg, agent_name) ==
    IF agent_name \in DOMAIN reg THEN reg[agent_name].capabilities ELSE <<>>

list_agents(reg) == [k \in DOMAIN reg |-> reg[k].capabilities]

\* Variant: a record exactly timeout old counts as unhealthy.
check_agent_health_inclusive(reg, t, timeout) ==
    {a \in DOMAIN reg : t - reg[a].last_heartbeat >= timeout}

check_agent_health(reg, t, timeout) ==
    {agent_name \in DOMAIN reg : t - reg[agent_name].last_heartbeat > timeout}

\* ------------------------------------------------------------- HTTP routes
EmptyListing == [k \in {} |-> <<>>]
Response(op, name, timeout, status) ==
    [op |-> op, name |-> name, timeout |-> timeout, status |-> status,
     capabilities |-> <<>>, unhealthy |-> {}, agents |-> EmptyListing]
NoResponse == Response("none", "", 0, 0)

Field(body, key) == IF key \in DOMAIN body THEN body[key] ELSE ""
HasName(body) == "agent_name" \in DOMAIN body /\ body.agent_name # ""
\* Variant: a capability list that is present counts, even when it is empty.
HasCaps_present(body) == "capabilities" \in DOMAIN body

HasCaps(body) == "capabilities" \in DOMAIN body /\ body.capabilities # <<>>

\* The /register route answering one request body.
register_request(body) ==
    /\ IF HasName(body) /\ HasCaps(body)
       THEN /\ registry' = register(registry, body.agent_name, body.capabilities, now)
            /\ resp' = [Response("register", body.agent_name, 0, 200)
                           EXCEPT !.capabilities = body.capabilities]
       ELSE /\ registry' = registry
            /\ resp' = Response("register", Field(body, "agent_name"), 0, 400)
    /\ UNCHANGED <<lockVars, now, sweepPc, sweepWake, sweepStale, sweepChecked, busVars, rtVars, svcVars>>

http_register == \E body \in RegisterBodies : register_request(body)

http_heartbeat ==
    \E body \in NameBodies :
        /\ IF HasName(body)
           THEN /\ registry' = heartbeat(registry, body.agent_name, now)
                /\ resp' = Response("heartbeat", body.agent_name, 0, 200)
           ELSE /\ registry' = registry
                /\ resp' = Response("heartbeat", "", 0, 400)
        /\ UNCHANGED <<lockVars, now, sweepPc, sweepWake, sweepStale, sweepChecked, busVars, rtVars, svcVars>>

http_unregister ==
    \E body \in NameBodies :
        /\ IF HasName(body)
           THEN /\ registry' = unregister(registry, body.agent_name)
                /\ resp' = Response("unregister", body.agent_name, 0, 200)
           ELSE /\ registry' = registry
                /\ resp' = Response("unregister", "", 0, 400)
        /\ UNCHANGED <<lockVars, now, sweepPc, sweepWake, sweepStale, sweepChecked, busVars, rtVars, svcVars>>

http_get_capabilities ==
    \E agent_name \in RegistryNames :
        LET capabilities == get_capabilities(registry, agent_name) IN
        /\ resp' = IF capabilities = <<>>
                   THEN Response("get_capabilities", agent_name, 0, 404)
                   ELSE [Response("get_capabilities", agent_name, 0, 200)
                            EXCEPT !.capabilities = capabilities]
        /\ UNCHANGED <<lockVars, registry, now, sweepPc, sweepWake, sweepStale, sweepChecked, busVars, rtVars, svcVars>>

http_list_agents ==
    /\ resp' = [Response("list_agents", "", 0, 200) EXCEPT !.agents = list_agents(registry)]
    /\ UNCHANGED <<lockVars, registry, now, sweepPc, sweepWake, sweepStale, sweepChecked, busVars, rtVars, svcVars>>

http_check_agent_health ==
    \E timeout \in Timeouts :
        /\ resp' = [Response("check_agent_health", "", timeout, 200)
                       EXCEPT !.unhealthy = check_agent_health(registry, now, timeout)]
        /\ UNCHANGED <<lockVars, registry, now, sweepPc, sweepWake, sweepStale, sweepChecked, busVars, rtVars, svcVars>>

\* ------------------------------------------- auto_deregister_stale_agents
\* time.sleep(interval) has returned; registry.check_agent_health(timeout)
\* Variant: the sweep calls check_agent_health with its default timeout.
SweepCheck_DefaultTimeout ==
    /\ sweepPc = "sleep"
    /\ now >= sweepWake
    /\ sweepStale' = check_agent_health(registry, now, DEFAULT_HEALTH_TIMEOUT)
    /\ sweepChecked' = now
    /\ sweepPc' = "unreg"
    /\ UNCHANGED <<lockVars, registry, now, resp, sweepWake, busVars, rtVars, svcVars>>

SweepCheck ==
    /\ sweepPc = "sleep"
    /\ now >= sweepWake
    /\ sweepStale' = check_agent_health(registry, now, SWEEP_TIMEOUT)
    /\ sweepChecked' = now
    /\ sweepPc' = "unreg"
    /\ UNCHANGED <<lockVars, registry, now, resp, sweepWake, busVars, rtVars, svcVars>>

\* for agent in stale_agents: registry.unregister(agent)
SweepUnregister ==
    /\ sweepPc = "unreg"
    /\ sweepStale # {}
    /\ \E agent \in sweepStale :
        /\ registry' = unregister(registry, agent)
        /\ sweepStale' = sweepStale \ {agent}
    /\ UNCHANGED <<lockVars, now, resp, sweepPc, sweepWake, sweepChecked, busVars, rtVars, svcVars>>

\* the for loop is exhausted: back to time.sleep(interval)
SweepSleep ==
    /\ sweepPc = "unreg"
    /\ sweepStale = {}
    /\ sweepPc' = "sleep"
    /\ sweepWake' = now + SWEEP_INTERVAL
    /\ UNCHANGED <<lockVars, registry, now, resp, sweepStale, sweepChecked, busVars, rtVars, svcVars>>

Tick ==
    /\ now + TickStep <= MaxTime
    /\ now' = now + TickStep
    /\ UNCHANGED <<lockVars, registry, resp, sweepPc, sweepWake, sweepStale, sweepChecked, busVars, rtVars, svcVars>>

\* ---------------------------------------------------- CapabilityRegistry._lock
\* The registry methods as the request threads of the service execute them:
\* the route parses the request, the method takes self._lock, reads the map
\* (and the clock), writes the map or builds its result, and leaves the lock;
\* the route then answers.
Threads == {"t1", "t2"}
NoCall == [pc |-> "idle"]
RegistryMethods ==
    {"register", "heartbeat", "unregister", "get_capabilities", "list_agents",
     "check_agent_health"}

Request(t) ==
    /\ calls[t].pc = "idle"
    /\ \E method \in RegistryMethods, agent_name \in RegistryNames :
        /\ method \in {"list_agents", "check_agent_health"} => agent_name = "Worker1"
        /\ calls' = [calls EXCEPT ![t] = [pc |-> "called", method |-> method,
                                          agent_name |-> agent_name]]
    /\ UNCHANGED <<regVars, busVars, rtVars, svcVars, lock>>

\* Variant: the method body is entered without taking the lock.
Acquire_Unlocked(t) ==
    /\ calls[t].pc = "called"
    /\ lock' = t
    /\ calls' = [calls EXCEPT ![t] = [pc |-> "locked", method |-> calls[t].method,
                                      agent_name |-> calls[t].agent_name,
                                      entry |-> registry]]
    /\ UNCHANGED <<regVars, busVars, rtVars, svcVars>>

\* with self._lock: entered when no other thread holds it. entry is the map
\* the method finds.
Acquire(t) ==
    /\ calls[t].pc = "called"
    /\ lock = "none"
    /\ lock' = t
    /\ calls' = [calls EXCEPT ![t] = [pc |-> "locked", method |-> calls[t].method,
                                      agent_name |-> calls[t].agent_name,
                                      entry |-> registry]]
    /\ UNCHANGED <<regVars, busVars, rtVars, svcVars>>

\* The first access of the body: `agent_name in self._registry`, the start
\* of the iteration over self._registry.items(), now = time.time().
Test(t) ==
    /\ calls[t].pc = "locked"
    /\ calls' = [calls EXCEPT ![t] =
                    [pc |-> "tested", method |-> calls[t].method,
                     agent_name |-> calls[t].agent_name, entry |-> calls[t].entry,
                     present |-> calls[t].agent_name \in DOMAIN registry,
                     keys |-> DOMAIN registry, at |-> now]]
    /\ UNCHANGED <<regVars, busVars, rtVars, svcVars, lock>>

\* The rest of the body: the write to the map, or the result built from it.
\* A key tested present and gone raises KeyError, a map that changed size
\* during the iteration raises RuntimeError.
Act(t) ==
    /\ calls[t].pc = "tested"
    /\ LET c == calls[t]
           name == c.agent_name
           gone == c.present /\ name \notin DOMAIN registry
           resized == DOMAIN registry # c.keys
           exc ==
               CASE c.method \in {"heartbeat", "unregister"} -> gone
                 [] c.method \in {"list_agents", "check_agent_health"} -> resized
                 [] OTHER -> FALSE
           after ==
               CASE c.method = "register" -> register(registry, name, <<"general">>, now)
                 [] c.method = "heartbeat" /\ c.present /\ ~gone ->
                        [registry EXCEPT ![name].last_heartbeat = now]
                 [] c.method = "unregister" /\ c.present /\ ~gone ->
                        [k \in DOMAIN registry \ {name} |-> registry[k]]
                 [] OTHER -> registry
           result ==
               CASE exc -> <<"raised">>
                 [] c.method = "get_capabilities" -> <<get_capabilities(registry, name)>>
                 [] c.method = "list_agents" -> <<list_agents(registry)>>
                 [] c.method = "check_agent_health" ->
                        <<check_agent_health(registry, c.at, DEFAULT_HEALTH_TIMEOUT)>>
                 [] OTHER -> <<>>
       IN
       /\ registry' = after
       /\ calls' = [calls EXCEPT ![t] =
                       [pc |-> "acted", method |-> c.method, agent_name |-> name,
                        entry |-> c.entry, at |-> c.at, exc |-> exc, result |-> result]]
    /\ UNCHANGED <<now, resp, sweepPc, sweepWake, sweepStale, sweepChecked, busVars, rtVars,
                   svcVars, lock>>

\* Leaving the with block; the route answers.
Release(t) ==
    /\ calls[t].pc = "acted"
    /\ lock' = IF lock = t THEN "none" ELSE lock
    /\ calls' = [calls EXCEPT ![t] = NoCall]
    /\ UNCHANGED <<regVars, busVars, rtVars, svcVars>>

\* ===================================================================
\* Agent runtime: envelopes, send_message and the three process_message
\* handlers, each computed as the code computes it on one envelope.
\* ===================================================================
Agents == {"ManagerAgent", "DeveloperAgent", "TestingAgent"}
Capabilities(a) ==
    CASE a = "ManagerAgent" -> <<"task_management", "dynamic_decision">>
      [] a = "DeveloperAgent" -> <<"code_implementation">>
      [] OTHER -> <<"automated_testing", "test_reports", "test_generation">>

EmptyDict == [k \in {} |-> TRUE]

\* dict.get(key, default)
Get(d, key, default) == IF key \in DOMAIN d THEN d[key] ELSE default

\* routing_key = receiver + "Queue"
QueueOf(receiver) == receiver \o "Queue"

\* The parameters send_message declares besides self.
SEND_MESSAGE_PARAMS == {"receiver", "message_type", "payload"}
PlainCall == {"receiver", "message_type", "payload"}
ProgressCall == {"receiver", "message_type", "payload", "progress"}

\* State threaded through one process_message call: the envelopes published so
\* far, whether an exception is propagating, and the handler's local variables.
NoError == [kind |-> "none", attempt |-> 0]
NoFilesError == [kind |-> "no_files", attempt |-> 0]
TestError(n) == [kind |-> "test", attempt |-> n]

Fresh ==
    [sent |-> <<>>, exc |-> FALSE,
     genCalls |-> 0, valCalls |-> 0, genArgs |-> <<>>,
     success |-> FALSE, final |-> 0, previous_code |-> 0, last_error |-> NoError,
     writes |-> <<>>, clarifications |-> <<>>, forwarded |-> <<>>, asked |-> <<>>]

Envelope(self, receiver, message_type, payload) ==
    [sender |-> self, receiver |-> receiver, type |-> message_type, payload |-> payload]

\* BaseAgent.send_message, called with the keyword arguments `kwargs`: a keyword
\* the signature does not declare is a TypeError raised before the body runs, and
\* pika.BlockingConnection raises when the broker refuses the connection.
send_message(st, self, receiver, message_type, payload, kwargs, bus) ==
    IF st.exc THEN st
    ELSE IF ~(kwargs \subseteq SEND_MESSAGE_PARAMS) THEN [st EXCEPT !.exc = TRUE]
    ELSE IF ~bus THEN [st EXCEPT !.exc = TRUE]
    ELSE [st EXCEPT !.sent = Append(@, Envelope(self, receiver, message_type, payload))]

\* A PROGRESS_UPDATE to the manager, progress in hundredths.
SendProgress(st, self, stage, progress, bus) ==
    send_message(st, self, "ManagerAgent", "PROGRESS_UPDATE",
                 [stage |-> stage, progress |-> progress], ProgressCall, bus)

\* ------------------------------------------------ DeveloperAgent.process_message
AttemptProgress(n) == ((n - 1) * 100) \div MAX_GENERATION_ATTEMPTS

CallGenerate(st) ==
    IF st.exc THEN st
    ELSE [st EXCEPT !.genCalls = @ + 1,
                    !.genArgs = Append(@, [previous_code |-> st.previous_code,
                                           error_message |-> st.last_error])]
CallValidate(st) == IF st.exc THEN st ELSE [st EXCEPT !.valCalls = @ + 1]
SetError(st, e) == IF st.exc THEN st ELSE [st EXCEPT !.last_error = e]
SetSuccess(st, n) == IF st.exc THEN st ELSE [st EXCEPT !.success = TRUE, !.final = n]
SetPrevious(st, n) == IF st.exc THEN st ELSE [st EXCEPT !.previous_code = n]

\* for attempt_num in range(1, MAX_GENERATION_ATTEMPTS + 1): gen[n] tells whether
\* generate_code_files returns files on attempt n, val[n] whether
\* run_generated_code accepts them.
RECURSIVE DevAttempts(_, _, _, _, _, _, _)
DevAttempts(st, n, self, test_locally, gen, val, bus) ==
    IF st.exc \/ st.success \/ n > MAX_GENERATION_ATTEMPTS THEN st
    ELSE
      LET ap == AttemptProgress(n)
          s1 == SendProgress(st, self, "generating", ap, bus)
          s2 == CallGenerate(s1)
      IN  IF s2.exc THEN s2
          ELSE IF ~gen[n]
          THEN DevAttempts(SendProgress(SetError(s2, NoFilesError), self, "error", ap, bus),
                           n + 1, self, test_locally, gen, val, bus)
          ELSE
            LET s3 == SendProgress(s2, self, "files_generated", ap + 10, bus) IN
            IF test_locally
            THEN LET s4 == CallValidate(SendProgress(s3, self, "testing", ap + 15, bus)) IN
                 IF s4.exc THEN s4
                 ELSE IF val[n]
                 THEN SendProgress(SetSuccess(s4, n), self, "test_success", 80, bus)
                 ELSE DevAttempts(
                        SetPrevious(SendProgress(SetError(s4, TestError(n)), self,
                                                 "test_error", ap + 20, bus), n),
                        n + 1, self, test_locally, gen, val, bus)
            ELSE SendProgress(SetSuccess(s3, n), self, "generation_complete", 80, bus)

\* The body of the try block.
DevTry(self, message, gen, val, bus) ==
    LET payload == Get(message, "payload", EmptyDict) IN
    IF Get(message, "type", "") = "TASK_ASSIGNMENT" /\ Get(payload, "prompt", FALSE)
    THEN
      LET test_locally == Get(payload, "test_locally", TRUE)
          start == [Fresh EXCEPT !.previous_code = Get(payload, "previous_code", 0)]
          s1 == SendProgress(start, self, "start", 0, bus)
          s2 == DevAttempts(s1, 1, self, test_locally, gen, val, bus)
          ok == s2.success /\ s2.final # 0
          s3 == IF ok
                THEN LET u == SendProgress(s2, self, "uploading", 85, bus)
                         c == IF Get(payload, "git_repo", FALSE)
                              THEN SendProgress(u, self, "committing", 90, bus)
                              ELSE u
                     IN SendProgress(c, self, "complete", 100, bus)
                ELSE SendProgress(s2, self, "failed", 100, bus)
          response ==
              IF ok
              THEN [code_generation_status |-> "success", generated_files |-> s2.final,
                    project_config |-> Get(payload, "project_config", EmptyDict)]
              ELSE [code_generation_status |-> "failure", last_error_message |-> s2.last_error,
                    project_config |-> Get(payload, "project_config", EmptyDict)]
      IN send_message(s3, self, Get(message, "sender", "ManagerAgent"),
                      "TASK_EXECUTION", response, PlainCall, bus)
    ELSE Fresh

\* What one handler call did: `caught` if the try block raised, `escaped` if the
\* except block raised in turn and the exception left process_message.
Outcome(body, after) ==
    [after EXCEPT !.exc = FALSE]
        @@ [caught |-> body.exc, escaped |-> body.exc /\ after.exc]

DeveloperProcess(self, message, gen, val, bus) ==
    LET body == DevTry(self, message, gen, val, bus)
        after == IF body.exc
                 THEN send_message([body EXCEPT !.exc = FALSE], self,
                                   Get(message, "sender", "ManagerAgent"), "STATUS_UPDATE",
                                   [status |-> "failure"], PlainCall, bus)
                 ELSE body
    IN Outcome(body, after)

\* -------------------------------------------------- TestingAgent.process_message
MentionsGeneration(reason) == reason = "generate tests"

handle_test_request(st, self, message, pytest_ok, bus) ==
    LET payload == Get(message, "payload", EmptyDict)
        run_pytest_flag == Get(payload, "run_pytest", TRUE)
        s1 == SendProgress(st, self, "start_test", 0, bus)
        s2 == SendProgress(s1, self, "install_deps", 20, bus)
        s3 == IF run_pytest_flag THEN SendProgress(s2, self, "running_tests", 40, bus) ELSE s2
        success == run_pytest_flag /\ pytest_ok
        final_payload ==
            [test_execution_status |-> IF success THEN "success" ELSE "failure",
             project_config |-> Get(payload, "project_config", EmptyDict)]
        s4 == send_message(s3, self, "ManagerAgent", "TASK_EXECUTION", final_payload,
                           PlainCall, bus)
    IN SendProgress(s4, self, "complete", 100, bus)

handle_test_generation_request(st, self, message, pytest_ok, bus) ==
    LET payload == Get(message, "payload", EmptyDict)
        run_pytest_flag == Get(payload, "run_pytest", TRUE)
        s1 == SendProgress(st, self, "start_test_generation", 0, bus)
        s2 == SendProgress(s1, self, "fetch_code", 20, bus)
        s3 == SendProgress(s2, self, "generate_tests", 30, bus)
        s4 == IF run_pytest_flag
              THEN SendProgress(SendProgress(s3, self, "install_deps", 50, bus),
                                self, "run_pytest", 70, bus)
              ELSE s3
        final_payload ==
            [test_generation_status |-> "completed",
             project_config |-> Get(payload, "project_config", EmptyDict)]
        s5 == send_message(s4, self, "ManagerAgent", "TASK_EXECUTION", final_payload,
                           PlainCall, bus)
    IN SendProgress(s5, self, "complete", 100, bus)

handle_task_assignment(st, self, message, pytest_ok, bus) ==
    IF MentionsGeneration(Get(Get(message, "payload", EmptyDict), "reason", ""))
    THEN handle_test_generation_request(st, self, message, pytest_ok, bus)
    ELSE handle_test_request(st, self, message, pytest_ok, bus)

\* Variant: an envelope of an unknown type is answered with a status update.
TesterProcess_RepliesUnknown(self, message, pytest_ok, bus) ==
    LET msg_type == Get(message, "type", "")
        body == CASE msg_type = "TEST_REQUEST" ->
                       handle_test_request(Fresh, self, message, pytest_ok, bus)
                  [] msg_type = "TEST_GENERATION_REQUEST" ->
                       handle_test_generation_request(Fresh, self, message, pytest_ok, bus)
                  [] msg_type = "TASK_ASSIGNMENT" ->
                       handle_task_assignment(Fresh, self, message, pytest_ok, bus)
                  [] OTHER -> send_message(Fresh, self, "ManagerAgent", "STATUS_UPDATE",
                                           [status |-> "ignored"], PlainCall, bus)
        after == IF body.exc
                 THEN send_message([body EXCEPT !.exc = FALSE], self, "ManagerAgent",
                                   "STATUS_UPDATE", [status |-> "failure"], PlainCall, bus)
                 ELSE body
    IN Outcome(body, after)

TesterProcess(self, message, pytest_ok, bus) ==
    LET msg_type == Get(message, "type", "")
        body == CASE msg_type = "TEST_REQUEST" ->
                       handle_test_request(Fresh, self, message, pytest_ok, bus)
                  [] msg_type = "TEST_GENERATION_REQUEST" ->
                       handle_test_generation_request(Fresh, self, message, pytest_ok, bus)
                  [] msg_type = "TASK_ASSIGNMENT" ->
                       handle_task_assignment(Fresh, self, message, pytest_ok, bus)
                  [] OTHER -> Fresh
        after == IF body.exc
                 THEN send_message([body EXCEPT !.exc = FALSE], self, "ManagerAgent",
                                   "STATUS_UPDATE", [status |-> "failure"], PlainCall, bus)
                 ELSE body
    IN Outcome(body, after)

\* -------------------------------------------------- ManagerAgent.process_message
\* The file server's status.md files: folder -> the lines of the status log.
\* Folder 0 is the empty folder name a missing project_config yields.
read_file_from_server(fs, folder) == IF folder \in DOMAIN fs THEN fs[folder] ELSE <<>>
\* Variant: the write of status.md is lost.
write_file_dropped(st, folder, content) == st

write_file_to_server(st, folder, content) ==
    IF st.exc THEN st ELSE [st EXCEPT !.writes = Append(@, [folder |-> folder, content |-> content])]

post_clarification_request_to_frontend(st, folder, clarifications) ==
    IF st.exc THEN st
    ELSE [st EXCEPT !.clarifications = Append(@, [project |-> folder, questions |-> clarifications])]

forward_message_to_frontend(st, message_type) ==
    IF st.exc THEN st ELSE [st EXCEPT !.forwarded = Append(@, message_type)]

\* llm_result.get(...): the oracle's reply is whatever JSON the model wrote; a
\* reply that is not a JSON object has no .get and raises AttributeError.
Raise(st) == [st EXCEPT !.exc = TRUE]

ManagerRequirement(self, message, llm, agents_and_caps, fs, newproj, bus) ==
    LET msg_type == Get(message, "type", "")
        payload == Get(message, "payload", EmptyDict)
        project_config == Get(payload, "project_config", EmptyDict)
        existing == project_config # EmptyDict
                      /\ msg_type \in {"UPDATE_REQUIREMENT", "CLARIFICATION_RESPONSE"}
        folder == IF existing THEN Get(project_config, "file_server_folder", 0) ELSE newproj
        \* create_project_in_fileserver writes status.md = "Project initialized."
        s0 == IF existing THEN Fresh
              ELSE write_file_to_server(Fresh, folder, <<"Project initialized.">>)
        status_content == IF existing THEN read_file_from_server(fs, folder)
                          ELSE <<"Project initialized.">>
    IN IF ~llm.is_object THEN Raise(s0)
       ELSE
         LET action == Get(llm.value, "action", "clarification")
             clarifications == Get(llm.value, "clarifications", <<>>)
             selected_agent == Get(llm.value, "selected_agent", "")
         IN IF action = "clarification"
            THEN post_clarification_request_to_frontend(s0, folder, clarifications)
            ELSE IF action = "assign_task" /\ selected_agent # ""
            THEN LET updated_status == Append(status_content, "Task assigned")
                     s1 == write_file_to_server(s0, folder, updated_status)
                 IN send_message(s1, self, selected_agent, "TASK_ASSIGNMENT",
                                 [prompt |-> TRUE,
                                  project_config |-> [file_server_folder |-> folder],
                                  reason |-> Get(llm.value, "reason", "")],
                                 PlainCall, bus)
            ELSE post_clarification_request_to_frontend(
                     s0, folder, <<"No valid agent selected by LLM.">>)

\* Variant: the completion note is written twice.
MarkCompleted_twice(st, folder, status_content) ==
    write_file_to_server(st, folder,
        Append(Append(status_content, "Project marked as completed"),
               "Project marked as completed"))

\* next_action == "project_completed": status.md = status_content + the note.
MarkCompleted(st, folder, status_content) ==
    write_file_to_server(st, folder, Append(status_content, "Project marked as completed"))

\* ask_llm_after_task_execution(task_execution_payload, requirements_md,
\* status_md + "Task execution status: <status>", agents_and_caps): what the
\* prompt tells the oracle about the task.
ask_llm_after_task_execution(st, task_execution_payload, status) ==
    IF st.exc THEN st
    ELSE [st EXCEPT !.asked = Append(@, [task_execution_payload |-> task_execution_payload,
                                         status |-> status])]

ManagerTaskExecution(self, message, llm, agents_and_caps, fs, bus) ==
    LET payload == Get(message, "payload", EmptyDict)
        code_generation_status == Get(payload, "code_generation_status", "failure")
        s0 == ask_llm_after_task_execution(
                  forward_message_to_frontend(Fresh, "TASK_EXECUTION"),
                  payload, code_generation_status)
        project_config == Get(payload, "project_config", EmptyDict)
        folder == Get(project_config, "file_server_folder", 0)
        status_content == read_file_from_server(fs, folder)
    IN IF ~llm.is_object THEN Raise(s0)
       ELSE
         LET next_action == Get(llm.value, "action", "project_completed")
             selected_agent == Get(llm.value, "selected_agent", "")
         IN IF next_action = "project_completed"
            THEN MarkCompleted(s0, folder, status_content)
            ELSE IF next_action = "assign_task" /\ selected_agent # ""
            THEN LET s1 == write_file_to_server(s0, folder,
                               Append(status_content, "Assigned next task"))
                 IN send_message(s1, self, selected_agent, "TASK_ASSIGNMENT",
                                 [prompt |-> TRUE, project_config |-> project_config,
                                  reason |-> Get(llm.value, "reason", "")],
                                 PlainCall, bus)
            ELSE write_file_to_server(s0, folder,
                     Append(status_content, "No valid next step"))

\* Variant: the manager answers a status update with a status update.
ManagerProcess_AnswersStatus(self, message, llm, agents_and_caps, fs, newproj, bus) ==
    LET msg_type == Get(message, "type", "")
        body ==
          CASE msg_type \in {"NEW_REQUIREMENT", "UPDATE_REQUIREMENT", "CLARIFICATION_RESPONSE"} ->
                 ManagerRequirement(self, message, llm, agents_and_caps, fs, newproj, bus)
            [] msg_type = "PROGRESS_UPDATE" -> forward_message_to_frontend(Fresh, "PROGRESS_UPDATE")
            [] msg_type = "TASK_EXECUTION" ->
                 ManagerTaskExecution(self, message, llm, agents_and_caps, fs, bus)
            [] msg_type = "STATUS_UPDATE" ->
                 send_message(Fresh, self, Get(message, "sender", "Client"), "STATUS_UPDATE",
                              [status |-> "received"], PlainCall, bus)
            [] OTHER -> Fresh
        after == IF body.exc
                 THEN send_message([body EXCEPT !.exc = FALSE], self,
                                   Get(message, "sender", "Client"), "STATUS_UPDATE",
                                   [status |-> "failure"], PlainCall, bus)
                 ELSE body
    IN Outcome(body, after)

ManagerProcess(self, message, llm, agents_and_caps, fs, newproj, bus) ==
    LET msg_type == Get(message, "type", "")
        body ==
          CASE msg_type \in {"NEW_REQUIREMENT", "UPDATE_REQUIREMENT", "CLARIFICATION_RESPONSE"} ->
                 ManagerRequirement(self, message, llm, agents_and_caps, fs, newproj, bus)
            [] msg_type = "PROGRESS_UPDATE" -> forward_message_to_frontend(Fresh, "PROGRESS_UPDATE")
            [] msg_type = "TASK_EXECUTION" ->
                 ManagerTaskExecution(self, message, llm, agents_and_caps, fs, bus)
            [] OTHER -> Fresh
        after == IF body.exc
                 THEN send_message([body EXCEPT !.exc = FALSE], self,
                                   Get(message, "sender", "Client"), "STATUS_UPDATE",
                                   [status |-> "failure"], PlainCall, bus)
                 ELSE body
    IN Outcome(body, after)

\* ===================================================================
\* The runtime: broker queues, the consumer callback, clients of the bus.
\* ===================================================================
\* The queue names the agent programs pass to BaseAgent.__init__ when the
\* environment configures nothing.
DefaultQueueName(a) == a \o "Queue"
QueueName(a) == queue_name[a]

\* Variant: the broker puts a published envelope in front of the waiting ones.
Publish_front(qs, envelope) ==
    LET q == QueueOf(envelope.receiver) IN
    IF q \in DOMAIN qs THEN [qs EXCEPT ![q] = <<envelope>> \o @] ELSE qs

\* basic_publish on the default exchange: an envelope whose routing key names no
\* declared queue is dropped by the broker.
Publish(qs, envelope) ==
    LET q == QueueOf(envelope.receiver) IN
    IF q \in DOMAIN qs THEN [qs EXCEPT ![q] = Append(@, envelope)] ELSE qs

RECURSIVE PublishAll(_, _)
PublishAll(qs, envelopes) ==
    IF envelopes = <<>> THEN qs
    ELSE PublishAll(Publish(qs, Head(envelopes)), Tail(envelopes))

RECURSIVE ApplyWrites(_, _)
ApplyWrites(fs, writes) ==
    IF writes = <<>> THEN fs
    ELSE ApplyWrites(Put(fs, Head(writes).folder, Head(writes).content), Tail(writes))

Declare(qs, q) == IF q \in DOMAIN qs THEN qs ELSE Put(qs, q, <<>>)

\* What the decision oracle can answer: json.loads of the model's text.
Selectable == {"", "DeveloperAgent", "TestingAgent", "GhostAgent"}
OracleResults ==
    {[is_object |-> TRUE, value |-> v] :
        v \in [action : {"assign_task"}, selected_agent : Selectable]
              \cup [action : {"clarification"}, clarifications : {<<>>, <<"q">>}]
              \cup [action : {"project_completed", "unknown_action"}]
              \cup {EmptyDict}}
        \cup {[is_object |-> FALSE, value |-> EmptyDict]}

\* Envelopes the other clients of the broker publish: the frontend and the
\* service manager, and task-execution results arriving on the manager's queue.
ClientEnvelopes ==
    {Envelope("FrontendUI", "ManagerAgent", "NEW_REQUIREMENT", [requirement |-> TRUE]),
     Envelope("FrontendUI", "ManagerAgent", "CLARIFICATION_RESPONSE",
              [requirement |-> TRUE, clarification |-> TRUE]),
     Envelope("ServiceManager", "ManagerAgent", "RESUME_PROJECT",
              [requirement |-> TRUE, project_config |-> [file_server_folder |-> 1]]),
     Envelope("ServiceManager", "DeveloperAgent", "TASK_ASSIGNMENT",
              [prompt |-> TRUE, project_config |-> [file_server_folder |-> 1]]),
     Envelope("ServiceManager", "TestingAgent", "TEST_REQUEST",
              [run_pytest |-> TRUE, project_config |-> [file_server_folder |-> 1]]),
     Envelope("DeveloperAgent", "ManagerAgent", "TASK_EXECUTION",
              [code_generation_status |-> "failure",
               project_config |-> [file_server_folder |-> 1]]),
     Envelope("TestingAgent", "ManagerAgent", "TASK_EXECUTION",
              [test_execution_status |-> "success",
               project_config |-> [file_server_folder |-> 1]])}

OracleSamples ==
    {[is_object |-> TRUE, value |-> v] :
        v \in [action : {"assign_task"}, selected_agent : {"DeveloperAgent", "TestingAgent"}]
              \cup [action : {"clarification"}, clarifications : {<<"q">>}]}
        \cup {[is_object |-> FALSE, value |-> EmptyDict]}

AllPass == [n \in 1..MAX_GENERATION_ATTEMPTS |-> TRUE]
AllFail == [n \in 1..MAX_GENERATION_ATTEMPTS |-> FALSE]
PlanSamples == {AllPass, AllFail}

\* Envelopes that can sit in the manager's queue.
ManagerInbox ==
    {Envelope("FrontendUI", "ManagerAgent", t, p) :
        t \in {"NEW_REQUIREMENT", "UPDATE_REQUIREMENT", "CLARIFICATION_RESPONSE"},
        p \in {[requirement |-> TRUE],
               [requirement |-> TRUE, project_config |-> [file_server_folder |-> 1]]}}
    \cup
    {Envelope(w, "ManagerAgent", "TASK_EXECUTION", p) :
        w \in {"DeveloperAgent"},
        p \in [code_generation_status : {"success", "failure"},
               project_config : {[file_server_folder |-> 1]}]}
    \cup
    {Envelope("TestingAgent", "ManagerAgent", "TASK_EXECUTION",
              [test_execution_status |-> "success",
               project_config |-> [file_server_folder |-> 1]]),
     Envelope("TestingAgent", "ManagerAgent", "TASK_EXECUTION",
              [test_execution_status |-> "failure"]),
     Envelope("TestingAgent", "ManagerAgent", "STATUS_UPDATE", [status |-> "failure"]),
     Envelope("DeveloperAgent", "ManagerAgent", "PROGRESS_UPDATE", [stage |-> "start"]),
     Envelope("ServiceManager", "ManagerAgent", "RESUME_PROJECT", [requirement |-> TRUE])}

NoRun == [agent |-> "none"]

\* Variant: register_agent without its try/except, and raising on a non-200
\* answer.
register_agent_uncaught(reg, agent_name, capabilities, t, mode) ==
    [registry |-> IF mode = "up" THEN register(reg, agent_name, capabilities, t) ELSE reg,
     exc |-> mode # "up"]

\* BaseAgent.register_agent: POST /register. A RequestException (the registry is
\* unreachable) is caught and printed, a non-200 answer is printed; either way
\* nothing is registered and the call returns.
register_agent(reg, agent_name, capabilities, t, mode) ==
    [registry |-> IF mode = "up" THEN register(reg, agent_name, capabilities, t) ELSE reg,
     exc |-> FALSE]

\* BaseAgent.send_heartbeat: POST /heartbeat; a RequestException is caught and
\* printed, the answer is not looked at.
\* Variant: an agent told its name is unknown registers again.
send_heartbeat_reregisters(reg, agent_name, t, mode) ==
    IF mode = "up"
    THEN IF agent_name \in DOMAIN reg
         THEN heartbeat(reg, agent_name, t)
         ELSE register(reg, agent_name, <<"general">>, t)
    ELSE reg

send_heartbeat(reg, agent_name, t, mode) ==
    IF mode = "up" THEN heartbeat(reg, agent_name, t) ELSE reg

\* BaseAgent.__init__: register with the registry, start the heartbeat thread
\* and the listen thread, which declares the agent's queue and starts
\* consuming. An exception leaving register_agent would leave __init__ before
\* the threads are started.
Start(a) ==
    /\ ~started[a]
    /\ started' = [started EXCEPT ![a] = TRUE]
    /\ LET r == register_agent(registry, a, Capabilities(a), now, registryMode) IN
       /\ registry' = r.registry
       /\ heartbeating' = [heartbeating EXCEPT ![a] = ~r.exc]
       /\ queues' = IF r.exc THEN queues ELSE Declare(queues, QueueName(a))
       /\ listening' = [listening EXCEPT ![a] = ~r.exc]
    /\ UNCHANGED <<lockVars, now, resp, sweepPc, sweepWake, sweepStale, sweepChecked,
                   cbPc, unacked, stopped, queue_name, busUp, files, nproj, published,
                   lastRun, rtVars, registryMode, wire, pending_clarification>>

\* pending_clarification = None
NoPending == [project |-> 0, questions |-> <<>>, none |-> TRUE]

\* A client declares the target queue and publishes to it. The front end's
\* /submit_clarification_response answers 400 when no clarification is
\* pending, and clears the pending clarification when it has published the
\* response.
ClientPublish ==
    /\ published < MaxPublishes
    /\ busUp
    /\ \E envelope \in ClientEnvelopes :
        /\ envelope.type = "CLARIFICATION_RESPONSE" => pending_clarification # NoPending
        /\ queues' = Publish(Declare(queues, QueueOf(envelope.receiver)), envelope)
        /\ pending_clarification' =
              IF envelope.type = "CLARIFICATION_RESPONSE" THEN NoPending
              ELSE pending_clarification
    /\ published' = published + 1
    /\ UNCHANGED <<lockVars, regVars, started, stopped, queue_name, listening, cbPc, unacked, busUp,
                   files, nproj, lastRun, rtVars, registryMode, heartbeating, wire>>

\* Variant: no prefetch limit, and a callback is entered for every delivery.
Deliver_Unbounded(a) ==
    /\ listening[a]
    /\ Len(queues[QueueName(a)]) > unacked[a]
    /\ cbPc' = [cbPc EXCEPT ![a] = "handling"]
    /\ unacked' = [unacked EXCEPT ![a] = @ + 1]
    /\ UNCHANGED <<lockVars, regVars, queues, started, stopped, queue_name, listening, busUp, files,
                   nproj, published, lastRun, rtVars, svcVars>>

\* The broker hands the oldest envelope to the consumer (prefetch_count = 1).
Deliver(a) ==
    /\ listening[a]
    /\ cbPc[a] = "idle"
    /\ unacked[a] < PREFETCH_COUNT
    /\ Len(queues[QueueName(a)]) > unacked[a]
    /\ cbPc' = [cbPc EXCEPT ![a] = "handling"]
    /\ unacked' = [unacked EXCEPT ![a] = @ + 1]
    /\ UNCHANGED <<lockVars, regVars, queues, started, stopped, queue_name, listening, busUp, files,
                   nproj, published, lastRun, rtVars, svcVars>>

\* The front end's /receive_clarification_request: each request the manager
\* posts replaces the pending one.
RECURSIVE receive_clarification_request(_, _)
receive_clarification_request(pending, requests) ==
    IF requests = <<>> THEN pending
    ELSE receive_clarification_request(Head(requests), Tail(requests))

\* Variant: the callback acknowledges in a finally clause, also when the
\* handler raised.
Finish_AckAlways(a, message, inputs, run) ==
    /\ queues' = [PublishAll(queues, run.sent) EXCEPT ![QueueName(a)] =
                     IF run.escaped THEN Tail(@) ELSE @]
    /\ files' = ApplyWrites(files, run.writes)
    /\ nproj' = IF \E i \in 1..Len(run.writes) : run.writes[i].folder = nproj + 1
                THEN nproj + 1 ELSE nproj
    /\ lastRun' = [agent |-> a, message |-> message, inputs |-> inputs, run |-> run]
    /\ IF run.escaped
       THEN /\ listening' = [listening EXCEPT ![a] = FALSE]
            /\ cbPc' = [cbPc EXCEPT ![a] = "raised"]
            /\ unacked' = [unacked EXCEPT ![a] = 0]
       ELSE /\ listening' = listening
            /\ cbPc' = [cbPc EXCEPT ![a] = "returned"]
            /\ unacked' = unacked
    /\ pending_clarification' = receive_clarification_request(pending_clarification,
                                                              run.clarifications)
    /\ UNCHANGED <<lockVars, regVars, started, stopped, queue_name, busUp, published, rtVars,
                   registryMode, heartbeating, wire>>

\* callback: self.process_message(message). An exception that leaves
\* process_message leaves the callback and start_consuming: the listen thread
\* ends with the envelope unacknowledged.
Finish(a, message, inputs, run) ==
    /\ queues' = PublishAll(queues, run.sent)
    /\ files' = ApplyWrites(files, run.writes)
    /\ nproj' = IF \E i \in 1..Len(run.writes) : run.writes[i].folder = nproj + 1
                THEN nproj + 1 ELSE nproj
    /\ lastRun' = [agent |-> a, message |-> message, inputs |-> inputs, run |-> run]
    /\ IF run.escaped
       THEN /\ listening' = [listening EXCEPT ![a] = FALSE]
            /\ cbPc' = [cbPc EXCEPT ![a] = "raised"]
            /\ unacked' = [unacked EXCEPT ![a] = 0]
       ELSE /\ listening' = listening
            /\ cbPc' = [cbPc EXCEPT ![a] = "returned"]
            /\ unacked' = unacked
    /\ pending_clarification' = receive_clarification_request(pending_clarification,
                                                              run.clarifications)
    /\ UNCHANGED <<lockVars, regVars, started, stopped, queue_name, busUp, published, rtVars,
                   registryMode, heartbeating, wire>>

HandleManagerWith(oracle) ==
    LET a == "ManagerAgent" IN
    /\ cbPc[a] = "handling"
    /\ \E llm \in oracle :
        LET message == Head(queues[QueueName(a)])
            agents_and_caps == list_agents(registry)
        IN Finish(a, message, [llm |-> llm, agents_and_caps |-> agents_and_caps],
                  ManagerProcess(a, message, llm, agents_and_caps, files, nproj + 1, busUp))

\* The manager against every answer of the oracle / against a sample of them.
HandleManager == HandleManagerWith(OracleResults)
HandleManagerSampled == HandleManagerWith(OracleSamples)

HandleDeveloper ==
    LET a == "DeveloperAgent" IN
    /\ cbPc[a] = "handling"
    /\ \E gen \in {AllPass}, val \in PlanSamples :
        LET message == Head(queues[QueueName(a)])
        IN Finish(a, message, [gen |-> gen, val |-> val],
                  DeveloperProcess(a, message, gen, val, busUp))

HandleTester ==
    LET a == "TestingAgent" IN
    /\ cbPc[a] = "handling"
    /\ \E pytest_ok \in BOOLEAN :
        LET message == Head(queues[QueueName(a)])
        IN Finish(a, message, [pytest_ok |-> pytest_ok],
                  TesterProcess(a, message, pytest_ok, busUp))

\* callback: ch.basic_ack(delivery_tag). lastRun observes the handler call the
\* callback is returning from; the acknowledgement ends that call.
Ack(a) ==
    /\ cbPc[a] = "returned"
    /\ queues' = [queues EXCEPT ![QueueName(a)] = Tail(@)]
    /\ cbPc' = [cbPc EXCEPT ![a] = "idle"]
    /\ lastRun' = IF lastRun.agent = a THEN NoRun ELSE lastRun
    /\ unacked' = [unacked EXCEPT ![a] = @ - 1]
    /\ UNCHANGED <<lockVars, regVars, started, stopped, queue_name, listening, busUp, files, nproj,
                   published, rtVars, svcVars>>

\* __main__: KeyboardInterrupt ends the sleep loop, "Shutting down." is logged
\* and the process exits. The heartbeat and listen threads are daemon threads:
\* they end with the process wherever they are; nothing stops consuming, waits
\* for the callback or unregisters. The broker takes back what was delivered
\* and not acknowledged.
Shutdown(a) ==
    /\ started[a]
    /\ ~stopped[a]
    /\ stopped' = [stopped EXCEPT ![a] = TRUE]
    /\ listening' = [listening EXCEPT ![a] = FALSE]
    /\ cbPc' = [cbPc EXCEPT ![a] = IF @ \in {"handling", "returned"} THEN "abandoned" ELSE @]
    /\ unacked' = [unacked EXCEPT ![a] = 0]
    /\ heartbeating' = [heartbeating EXCEPT ![a] = FALSE]
    /\ UNCHANGED <<lockVars, regVars, queues, started, queue_name, busUp, files, nproj, published,
                   lastRun, rtVars, registryMode, wire, pending_clarification>>

\* ------------------------------------------------------- the envelope on the wire
\* Python values of a message, tagged with their type, and the JSON text
\* json.dumps makes of them, as the tree of its tokens.
PyNone == [py |-> "None"]
PyStr(s) == [py |-> "str", str |-> s]
PyFloat(x) == [py |-> "float", num |-> x]
PyDict(d) == [py |-> "dict", items |-> d]

RECURSIVE json_dumps(_)
json_dumps(x) ==
    CASE x.py = "None" -> [js |-> "null"]
      [] x.py = "str" -> [js |-> "string", chars |-> x.str]
      [] x.py = "float" -> [js |-> "number", digits |-> x.num]
      [] x.py = "dict" ->
            [js |-> "object",
             members |-> {<<k, json_dumps(x.items[k])>> : k \in DOMAIN x.items}]

RECURSIVE json_loads(_)
json_loads(j) ==
    CASE j.js = "null" -> PyNone
      [] j.js = "string" -> PyStr(j.chars)
      [] j.js = "number" -> PyFloat(j.digits)
      [] j.js = "object" ->
            PyDict([k \in {m[1] : m \in j.members} |->
                       json_loads((CHOOSE m \in j.members : m[1] = k)[2])])

\* str(time.time()) and time.strftime("%Y-%m-%dT%H:%M:%SZ") at time t.
TimeText(t) == PyStr(ToString(t))

\* The message dict send_message builds: it has no "progress" key.
WireMessage(self, receiver, message_type, payload, t) ==
    PyDict([message_id |-> TimeText(t), sender |-> PyStr(self),
            receiver |-> PyStr(receiver), timestamp |-> TimeText(t),
            type |-> PyStr(message_type), payload |-> payload])

\* The message dict forward_message_to_frontend builds.
ForwardedMessage(message_type, payload, progress, t) ==
    PyDict([message_id |-> TimeText(t), sender |-> PyStr("ManagerAgent"),
            receiver |-> PyStr("FrontendUI"), timestamp |-> TimeText(t),
            type |-> message_type, payload |-> payload, progress |-> progress])

WireTypes == {"PROGRESS_UPDATE", "TASK_EXECUTION", "TASK_ASSIGNMENT"}
WirePayloads ==
    {PyDict(EmptyDict),
     PyDict([stage |-> PyStr("start")]),
     PyDict([code_generation_status |-> PyStr("failure"), last_error_message |-> PyNone]),
     PyDict([code_generation_status |-> PyStr("success"),
             project_config |-> PyDict([file_server_folder |-> PyStr("project_1")])])}

\* send_message: body = json.dumps(message), published to the receiver's queue.
WireSend ==
    /\ wire.pc = "none"
    /\ \E self \in Agents, receiver \in Agents, message_type \in WireTypes,
          payload \in WirePayloads :
         LET message == WireMessage(self, receiver, message_type, payload, now) IN
         wire' = [pc |-> "published", message |-> message, body |-> json_dumps(message)]
    /\ UNCHANGED <<lockVars, regVars, busVars, rtVars, registryMode, heartbeating, pending_clarification>>

\* send_message called again and again: the messages built so far, in the
\* order they were built.
SendLogged ==
    /\ wire.pc \in {"none", "log"}
    /\ LET sent == IF wire.pc = "log" THEN wire.sent ELSE <<>> IN
       /\ Len(sent) < MaxPublishes + 1
       /\ \E self \in Agents : \E receiver \in Agents \ {self} :
            wire' = [pc |-> "log",
                     sent |-> Append(sent, WireMessage(self, receiver, "STATUS_UPDATE",
                                                       PyDict(EmptyDict), now))]
    /\ UNCHANGED <<lockVars, regVars, busVars, rtVars, registryMode, heartbeating, pending_clarification>>

\* float(message_id): the clock reading a message id was rendered from.
message_id_value(message) ==
    CHOOSE t \in 0..(MaxTime + TickStep) : TimeText(t) = message.items["message_id"]

\* callback: message = json.loads(body)
WireReceive ==
    /\ wire.pc = "published"
    /\ wire' = [pc |-> "received", message |-> wire.message, body |-> wire.body,
                received |-> json_loads(wire.body)]
    /\ UNCHANGED <<lockVars, regVars, busVars, rtVars, registryMode, heartbeating, pending_clarification>>

\* ManagerAgent.process_message on PROGRESS_UPDATE and TASK_EXECUTION:
\* forward_message_to_frontend posts a new message as JSON, and the front end
\* reads it with request.get_json().
WireForward ==
    /\ wire.pc = "received"
    /\ wire.received.items["receiver"] = PyStr("ManagerAgent")
    /\ wire.received.items["type"] \in {PyStr("PROGRESS_UPDATE"), PyStr("TASK_EXECUTION")}
    /\ LET message == wire.received.items
           progress == IF message["type"] = PyStr("PROGRESS_UPDATE")
                       THEN Get(message, "progress", PyFloat(0))
                       ELSE PyNone
           posted == ForwardedMessage(message["type"], message["payload"],
                                      progress, now)
       IN wire' = [pc |-> "forwarded", message |-> wire.message, body |-> wire.body,
                   received |-> wire.received,
                   frontend |-> json_loads(json_dumps(posted))]
    /\ UNCHANGED <<lockVars, regVars, busVars, rtVars, registryMode, heartbeating, pending_clarification>>

\* heartbeat_loop: while True: self.send_heartbeat(); time.sleep(30)
HeartbeatLoop(a) ==
    /\ heartbeating[a]
    /\ registry' = send_heartbeat(registry, a, now, registryMode)
    /\ UNCHANGED <<lockVars, now, resp, sweepPc, sweepWake, sweepStale, sweepChecked, busVars,
                   rtVars, svcVars>>

\* The registry becomes unreachable, answers with an error, or recovers.
RegistryModes == {"up", "unreachable", "error"}
RegistryChange ==
    /\ \E mode \in RegistryModes \ {registryMode} : registryMode' = mode
    /\ UNCHANGED <<lockVars, regVars, busVars, rtVars, heartbeating, wire, pending_clarification>>

\* The broker stops / resumes accepting new connections.
BusFail ==
    /\ busUp
    /\ busUp' = FALSE
    /\ UNCHANGED <<lockVars, regVars, queues, started, stopped, queue_name, listening, cbPc, unacked, files, nproj, published,
                   lastRun, rtVars, svcVars>>

BusRecover ==
    /\ ~busUp
    /\ busUp' = TRUE
    /\ UNCHANGED <<lockVars, regVars, queues, started, stopped, queue_name, listening, cbPc, unacked, files, nproj, published,
                   lastRun, rtVars, svcVars>>

\* ------------------------------------------------------------ retry engine
\* One task-assignment handled by the developer against every behaviour of the
\* generation and validation functions.
TaskAssignments ==
    {Envelope(s, "DeveloperAgent", "TASK_ASSIGNMENT", p) :
        s \in {"ManagerAgent", "ServiceManager"},
        p \in [prompt : {TRUE}, test_locally : BOOLEAN]}
Plans == [1..MAX_GENERATION_ATTEMPTS -> BOOLEAN]

RetryHandle ==
    /\ rtRun = NoRun
    /\ rtRun' = [agent |-> "DeveloperAgent",
                 run |-> DeveloperProcess("DeveloperAgent", rtMsg, rtGen, rtVal, TRUE)]
    /\ UNCHANGED <<lockVars, regVars, busVars, rtMsg, rtGen, rtVal, svcVars>>

\* ------------------------------------------------------------ specifications
RegistryIdle ==
    /\ registry = [k \in {} |-> [capabilities |-> <<>>, last_heartbeat |-> 0]]
    /\ now = 0
    /\ resp = NoResponse
    /\ sweepPc = "sleep"
    /\ sweepWake = SWEEP_INTERVAL
    /\ sweepStale = {}
    /\ sweepChecked = -1
    /\ lock = "none"
    /\ calls = [t \in Threads |-> NoCall]

BusIdle ==
    /\ queues = [q \in {} |-> <<>>]
    /\ started = [a \in Agents |-> FALSE]
    /\ listening = [a \in Agents |-> FALSE]
    /\ cbPc = [a \in Agents |-> "idle"]
    /\ busUp = TRUE
    /\ files = [f \in {} |-> <<>>]
    /\ nproj = 0
    /\ published = 0
    /\ lastRun = NoRun
    /\ unacked = [a \in Agents |-> 0]
    /\ stopped = [a \in Agents |-> FALSE]
    /\ queue_name = [a \in Agents |-> DefaultQueueName(a)]

RetryIdle ==
    /\ rtMsg = Envelope("ManagerAgent", "DeveloperAgent", "TASK_ASSIGNMENT",
                        [prompt |-> TRUE, test_locally |-> TRUE])
    /\ rtGen = [n \in 1..MAX_GENERATION_ATTEMPTS |-> TRUE]
    /\ rtVal = [n \in 1..MAX_GENERATION_ATTEMPTS |-> TRUE]
    /\ rtRun = NoRun

\* No agent process is running / every agent process is running; the registry
\* is up and no envelope is being followed.
NoWire == [pc |-> "none"]
ServiceIdle ==
    /\ registryMode = "up"
    /\ heartbeating = [a \in Agents |-> FALSE]
    /\ wire = NoWire
    /\ pending_clarification = NoPending
ServiceRunning ==
    /\ registryMode = "up"
    /\ heartbeating = [a \in Agents |-> TRUE]
    /\ wire = NoWire
    /\ pending_clarification = NoPending

vars == <<regVars, busVars, rtVars, svcVars, lockVars>>

InitRegistry == RegistryIdle /\ BusIdle /\ RetryIdle /\ ServiceIdle

NextRegistry ==
    \/ http_register
    \/ http_heartbeat
    \/ http_unregister
    \/ http_get_capabilities
    \/ http_list_agents
    \/ http_check_agent_health
    \/ SweepCheck
    \/ SweepUnregister
    \/ SweepSleep
    \/ Tick

\* The registry with one agent whose heartbeats arrive in time: time does not
\* pass beyond the eviction timeout after the last heartbeat the registry got
\* from it (period 30, delayed by up to 90).
TimelyAgent == "Worker1"
TickTimely ==
    /\ Tick
    /\ TimelyAgent \in DOMAIN registry
         => now' - registry[TimelyAgent].last_heartbeat <= SWEEP_TIMEOUT

NextTimely ==
    \/ http_register
    \/ http_heartbeat
    \/ http_unregister
    \/ SweepCheck
    \/ SweepUnregister
    \/ SweepSleep
    \/ TickTimely

SpecTimely == InitRegistry /\ [][NextTimely]_vars

SpecRegistry == InitRegistry /\ [][NextRegistry]_vars

\* Two request threads calling the registry methods as time passes.
NextLock ==
    \/ \E t \in Threads : Request(t)
    \/ \E t \in Threads : Acquire(t)
    \/ \E t \in Threads : Test(t)
    \/ \E t \in Threads : Act(t)
    \/ \E t \in Threads : Release(t)
    \/ Tick

SpecLock == InitRegistry /\ [][NextLock]_vars

InitBus == RegistryIdle /\ BusIdle /\ RetryIdle /\ ServiceIdle

NextBus ==
    \/ \E a \in Agents : Start(a)
    \/ ClientPublish
    \/ \E a \in Agents : Deliver(a)
    \/ HandleManagerSampled
    \/ HandleDeveloper
    \/ HandleTester
    \/ \E a \in Agents : Ack(a)

SpecBus == InitBus /\ [][NextBus]_vars

\* The bus with agents whose processes are interrupted.
NextShutdown ==
    \/ NextBus
    \/ \E a \in Agents : Shutdown(a)

SpecShutdown == InitBus /\ [][NextShutdown]_vars

\* One envelope from send_message through the consumer callback to the front
\* end, at any time.
NextEnvelope ==
    \/ WireSend
    \/ WireReceive
    \/ WireForward
    \/ Tick

SpecEnvelope == InitBus /\ [][NextEnvelope]_vars

\* The agents started and heartbeating against a registry that comes and goes,
\* each with one envelope waiting in its durable queue.
InitStartup ==
    /\ RegistryIdle
    /\ queues = [q \in {DefaultQueueName(a) : a \in Agents} |->
                    <<Envelope("ServiceManager",
                               CHOOSE a \in Agents : DefaultQueueName(a) = q,
                               "STATUS_UPDATE", EmptyDict)>>]
    /\ started = [a \in Agents |-> FALSE]
    /\ listening = [a \in Agents |-> FALSE]
    /\ cbPc = [a \in Agents |-> "idle"]
    /\ busUp = TRUE
    /\ files = [f \in {} |-> <<>>]
    /\ nproj = 0
    /\ published = 0
    /\ lastRun = NoRun
    /\ unacked = [a \in Agents |-> 0]
    /\ stopped = [a \in Agents |-> FALSE]
    /\ queue_name = [a \in Agents |-> DefaultQueueName(a)]
    /\ RetryIdle
    /\ ServiceIdle

NextStartup ==
    \/ \E a \in Agents : Start(a)
    \/ RegistryChange
    \/ \E a \in Agents : HeartbeatLoop(a)
    \/ \E a \in Agents : Deliver(a)
    \/ Tick

\* The agents started and heartbeating, late or in time, against the registry
\* and its sweep.
NextEviction ==
    \/ \E a \in Agents : Start(a)
    \/ \E a \in Agents : HeartbeatLoop(a)
    \/ SweepCheck
    \/ SweepUnregister
    \/ SweepSleep
    \/ Tick

SpecEviction == InitBus /\ [][NextEviction]_vars

\* Agents building messages as the clock advances.
NextMessageIds ==
    \/ SendLogged
    \/ Tick

SpecMessageIds == InitBus /\ [][NextMessageIds]_vars

SpecStartup == InitStartup /\ [][NextStartup]_vars

NextBusFaults ==
    \/ NextBus
    \/ BusFail
    \/ BusRecover

SpecBusFaults == InitBus /\ [][NextBusFaults]_vars

\* The controller on one envelope of its queue, against every answer of the
\* oracle, every set of registered agents and an empty or a started status log.
Registered(S) == [a \in S |-> [capabilities |-> Capabilities(a), last_heartbeat |-> 0]]
StartedLog == <<"Project initialized.", "Task assigned">>

InitController ==
    /\ \E S \in SUBSET Agents : registry = Registered(S)
    /\ now = 0
    /\ resp = NoResponse
    /\ sweepPc = "sleep"
    /\ sweepWake = SWEEP_INTERVAL
    /\ sweepStale = {}
    /\ sweepChecked = -1
    /\ lock = "none"
    /\ calls = [t \in Threads |-> NoCall]
    /\ queue_name = [a \in Agents |-> DefaultQueueName(a)]
    /\ unacked = [a \in Agents |-> 0]
    /\ stopped = [a \in Agents |-> FALSE]
    /\ \E m \in ManagerInbox :
         queues = [q \in {DefaultQueueName(a) : a \in Agents} |->
                      IF q = DefaultQueueName("ManagerAgent") THEN <<m>> ELSE <<>>]
    /\ started = [a \in Agents |-> TRUE]
    /\ listening = [a \in Agents |-> TRUE]
    /\ cbPc = [a \in Agents |-> "idle"]
    /\ busUp = TRUE
    /\ \E n \in {0, 1} :
         /\ nproj = n
         /\ files = [f \in 1..n |-> StartedLog]
    /\ published = 0
    /\ lastRun = NoRun
    /\ RetryIdle
    /\ ServiceRunning

NextController ==
    \/ \E a \in Agents : Deliver(a)
    \/ HandleManager
    \/ HandleDeveloper
    \/ HandleTester
    \/ \E a \in Agents : Ack(a)

SpecController == InitController /\ [][NextController]_vars

\* The bus with the manager's queue name taken from the environment
\* (MANAGER_QUEUE); the worker programs pass their fixed names.
ManagerQueueNames == {DefaultQueueName("ManagerAgent"), "ControllerQueue"}

InitRouting ==
    /\ RegistryIdle
    /\ queues = [q \in {} |-> <<>>]
    /\ started = [a \in Agents |-> FALSE]
    /\ listening = [a \in Agents |-> FALSE]
    /\ cbPc = [a \in Agents |-> "idle"]
    /\ busUp = TRUE
    /\ files = [f \in {} |-> <<>>]
    /\ nproj = 0
    /\ published = 0
    /\ lastRun = NoRun
    /\ unacked = [a \in Agents |-> 0]
    /\ stopped = [a \in Agents |-> FALSE]
    /\ \E q \in ManagerQueueNames :
         queue_name = [a \in Agents |->
                          IF a = "ManagerAgent" THEN q ELSE DefaultQueueName(a)]
    /\ RetryIdle
    /\ ServiceIdle

SpecRouting == InitRouting /\ [][NextBus]_vars

InitRetry ==
    /\ RegistryIdle
    /\ BusIdle
    /\ rtMsg \in TaskAssignments
    /\ rtGen \in Plans
    /\ rtVal \in Plans
    /\ rtRun = NoRun
    /\ ServiceIdle

NextRetry == RetryHandle

SpecRetry == InitRetry /\ [][NextRetry]_vars

\* ------------------------------------------------------- registry claims
\* C6: Heartbeat(A) for a name A that has no record leaves the registry unchanged:
\* no record is created and A stays absent from ListAgents.
C6_HeartbeatAbsentIsNoop ==
    [][\A body \in NameBodies :
          (/\ HasName(body)
           /\ body.agent_name \notin DOMAIN registry
           /\ registry' = heartbeat(registry, body.agent_name, now)
           /\ resp' = Response("heartbeat", body.agent_name, 0, 200))
          => (/\ registry' = registry
              /\ body.agent_name \notin DOMAIN list_agents(registry'))]_vars

\* A heartbeat was answered 200 for a name that has no record, after a sweep
\* pass has run: the name is still absent.
C6_Witness ==
    /\ resp.op = "heartbeat"
    /\ resp.status = 200
    /\ resp.name \notin DOMAIN registry
    /\ sweepChecked >= 0

\* C7: CheckHealth(t) returns exactly the registered names whose last heartbeat
\* is more than t old (exactly t old is not returned) and changes no record.
C7_CheckHealthExact ==
    [][\A timeout \in Timeouts :
          (resp' = [Response("check_agent_health", "", timeout, 200)
                       EXCEPT !.unhealthy = check_agent_health(registry, now, timeout)])
          => (/\ \A a \in RegistryNames :
                    a \in resp'.unhealthy
                        <=> (a \in DOMAIN registry
                             /\ registry[a].last_heartbeat + timeout < now)
              /\ (http_check_agent_health => registry' = registry))]_vars

\* A health check answered with one record exactly t old (left out) and one
\* record older than t (returned).
C7_Witness ==
    /\ resp.op = "check_agent_health"
    /\ \E a, b \in DOMAIN registry :
        /\ now - registry[a].last_heartbeat = resp.timeout
        /\ a \notin resp.unhealthy
        /\ now - registry[b].last_heartbeat > resp.timeout
        /\ b \in resp.unhealthy

\* C8: after Register(A, caps) GetCapabilities(A) is exactly caps whatever record
\* A had before, A's timestamp is the current time, and registering the same
\* (A, caps) again gives the same capability sets.
C8_RegisterReplaces ==
    [][\A body \in RegisterBodies :
          (/\ HasName(body) /\ HasCaps(body)
           /\ registry' = register(registry, body.agent_name, body.capabilities, now))
          => (/\ get_capabilities(registry', body.agent_name) = body.capabilities
              /\ registry'[body.agent_name].last_heartbeat = now
              /\ list_agents(register(registry', body.agent_name, body.capabilities, now))
                    = list_agents(registry'))]_vars

\* A register call answered 200 at a time later than 0: the record holds the
\* capabilities of the request and the time of the call.
C8_Witness ==
    /\ resp.op = "register"
    /\ resp.status = 200
    /\ resp.name \in DOMAIN registry
    /\ registry[resp.name].capabilities = <<"build">>
    /\ resp.capabilities = <<"build">>
    /\ now > 0
    /\ registry[resp.name].last_heartbeat = now

\* C9: a record whose last heartbeat is more than the eviction timeout old is
\* returned by the sweep's CheckHealth(120) and is gone once that sweep pass has
\* finished: after a pass no record is older than the timeout at the pass's check.
C9_SweepEvictsStale ==
    /\ [](sweepPc = "sleep" /\ sweepChecked >= 0
            => \A a \in DOMAIN registry :
                  sweepChecked - registry[a].last_heartbeat <= SWEEP_TIMEOUT)
    /\ [][SweepCheck
            => \A a \in DOMAIN registry :
                  now - registry[a].last_heartbeat > SWEEP_TIMEOUT => a \in sweepStale']_vars

\* Worker1 was registered (the last request the service answered), no heartbeat
\* followed, and a finished sweep pass has removed it.
C9_Witness ==
    /\ resp.op = "register"
    /\ resp.status = 200
    /\ resp.name = "Worker1"
    /\ "Worker1" \notin DOMAIN registry
    /\ sweepPc = "sleep"
    /\ sweepChecked > SWEEP_TIMEOUT

\* ------------------------------------------------------ retry engine claims
TerminalStatus(run) ==
    IF \E i \in 1..Len(run.sent) : run.sent[i].type = "TASK_EXECUTION"
    THEN LET i == CHOOSE i \in 1..Len(run.sent) : run.sent[i].type = "TASK_EXECUTION"
         IN run.sent[i].payload.code_generation_status
    ELSE "none"

\* C1: with validation enabled and every generated artifact failing validation,
\* the engine makes exactly MAX_ATTEMPTS generation calls and ends in failure.
C1_RetryBound ==
    (/\ rtRun.agent # "none"
     /\ rtMsg.payload.test_locally
     /\ \A n \in 1..MAX_GENERATION_ATTEMPTS : rtGen[n] /\ ~rtVal[n])
    => (/\ rtRun.run.genCalls = MAX_GENERATION_ATTEMPTS
        /\ TerminalStatus(rtRun.run) = "failure")

\* C2: if attempt k is the first whose artifact passes validation, no attempt
\* after k generates or validates, and the terminal outcome is success.
C2_EarlyExit ==
    \A k \in 1..MAX_GENERATION_ATTEMPTS :
        (/\ rtRun.agent # "none"
         /\ rtMsg.payload.test_locally
         /\ rtGen[k] /\ rtVal[k]
         /\ \A j \in 1..(k - 1) : ~(rtGen[j] /\ rtVal[j]))
        => (/\ rtRun.run.genCalls = k
            /\ rtRun.run.valCalls = Cardinality({j \in 1..k : rtGen[j]})
            /\ TerminalStatus(rtRun.run) = "success")

\* ----------------------------------------------------------- runtime claims
Manager == "ManagerAgent"
OfType(envelopes, t) == SelectSeq(envelopes, LAMBDA e : e.type = t)
RequirementTypes == {"NEW_REQUIREMENT", "UPDATE_REQUIREMENT", "CLARIFICATION_RESPONSE"}

\* The last handler call was the manager deciding on an assign_task answer.
ManagerAssignDecision ==
    /\ lastRun.agent = Manager
    /\ lastRun.message.type \in RequirementTypes \cup {"TASK_EXECUTION"}
    /\ lastRun.inputs.llm.is_object
    /\ Get(lastRun.inputs.llm.value, "action", "") = "assign_task"

SelectedAgent == Get(lastRun.inputs.llm.value, "selected_agent", "")

\* C3: when the oracle answers assign_task with an agent that is not in the
\* registry snapshot, the controller publishes no task-assignment and asks for a
\* clarification instead.
C3_UnknownAgentFallsBack ==
    (/\ ManagerAssignDecision
     /\ SelectedAgent # ""
     /\ SelectedAgent \notin DOMAIN lastRun.inputs.agents_and_caps)
    => (/\ OfType(lastRun.run.sent, "TASK_ASSIGNMENT") = <<>>
        /\ Len(lastRun.run.clarifications) = 1)

\* C4: a delivered message is acknowledged (leaves the queue) only after its
\* handler returned without raising; when the handler raises, the callback ends
\* without acknowledging and the message stays in the queue for redelivery.
C4_AckOnlyAfterReturn ==
    /\ [][\A a \in Agents :
            (QueueName(a) \in DOMAIN queues
             /\ Len(queues'[QueueName(a)]) < Len(queues[QueueName(a)]))
            => cbPc[a] = "returned"]_vars
    /\ [][\A a \in Agents :
            (cbPc[a] = "handling" /\ cbPc'[a] # "handling")
            => (/\ lastRun'.agent = a
                /\ lastRun'.run.escaped <=> cbPc'[a] = "raised"
                /\ lastRun'.run.escaped
                     => (/\ queues'[QueueName(a)] # <<>>
                         /\ Head(queues'[QueueName(a)]) = lastRun'.message))]_vars
    /\ [](\A a \in Agents : cbPc[a] = "raised" => queues[QueueName(a)] # <<>>)

\* A handler raised: its message is still at the head of the agent's queue.
C4_Witness ==
    /\ lastRun.agent \in Agents
    /\ lastRun.run.escaped
    /\ cbPc[lastRun.agent] = "raised"
    /\ Head(queues[QueueName(lastRun.agent)]) = lastRun.message

\* C5: for every agent kind, an exception raised while handling an envelope
\* yields exactly one status-update to the envelope's original sender, and the
\* handler returns so that the message is acknowledged and the loop goes on.
C5_ExceptionBecomesStatusUpdate ==
    (lastRun.agent \in Agents /\ lastRun.run.caught)
    => (/\ Len(OfType(lastRun.run.sent, "STATUS_UPDATE")) = 1
        /\ OfType(lastRun.run.sent, "STATUS_UPDATE")[1].receiver = lastRun.message.sender
        /\ ~lastRun.run.escaped)

\* C10: handling a task-execution-result for which the oracle answers
\* assign_task with an agent of the registry snapshot publishes exactly one
\* task-assignment, to that agent's queue, and appends exactly one status line.
C10_Case ==
    /\ ManagerAssignDecision
    /\ lastRun.message.type = "TASK_EXECUTION"
    /\ SelectedAgent \in DOMAIN lastRun.inputs.agents_and_caps

C10_OneAssignmentOneLogLine ==
    [][(cbPc[Manager] = "handling" /\ cbPc'[Manager] # "handling" /\ C10_Case')
       => LET run == lastRun'.run
              q == QueueName(SelectedAgent')
              folder == Get(Get(lastRun'.message.payload, "project_config", EmptyDict),
                            "file_server_folder", 0)
          IN /\ Len(run.sent) = 1
             /\ run.sent[1].type = "TASK_ASSIGNMENT"
             /\ run.sent[1].receiver = SelectedAgent'
             /\ q \in DOMAIN queues
             /\ queues' = [queues EXCEPT ![q] = Append(@, run.sent[1])]
             /\ folder \in DOMAIN files'
             /\ Len(files'[folder]) = Len(read_file_from_server(files, folder)) + 1
             /\ SubSeq(files'[folder], 1, Len(files'[folder]) - 1)
                    = read_file_from_server(files, folder)
             /\ \A f \in DOMAIN files : f # folder => files'[f] = files[f]]_vars

\* The manager handled a failed task-execution-result and assigned the tester.
C10_Witness ==
    /\ C10_Case
    /\ SelectedAgent = "TestingAgent"
    /\ Get(lastRun.message.payload, "code_generation_status", "") = "failure"
    /\ Len(OfType(lastRun.run.sent, "TASK_ASSIGNMENT")) = 1

\* ----------------------------------------------------- delivery order claims
IsPrefix(s, t) == Len(s) <= Len(t) /\ SubSeq(t, 1, Len(s)) = s

\* C11: per-queue FIFO. Every step leaves the envelopes waiting in a queue in
\* their order and adds new ones behind them; an envelope leaves a queue only
\* from the front and only by the acknowledgement of the queue's consumer; and
\* the envelope a consumer handles is the oldest one of its queue.
C11_PerQueueFifo ==
    /\ [][\A q \in DOMAIN queues :
            /\ q \in DOMAIN queues'
            /\ \/ IsPrefix(queues[q], queues'[q])
               \/ /\ queues[q] # <<>>
                  /\ queues'[q] = Tail(queues[q])
                  /\ \E a \in Agents : QueueName(a) = q /\ cbPc[a] = "returned"]_vars
    /\ [][\A a \in Agents :
            (cbPc[a] = "handling" /\ cbPc'[a] # "handling")
            => lastRun'.message = Head(queues[QueueName(a)])]_vars

\* Two different envelopes wait in one queue and its consumer has handled the
\* older one.
C11_Witness ==
    \E a \in Agents :
        /\ lastRun.agent = a
        /\ cbPc[a] = "returned"
        /\ Len(queues[QueueName(a)]) >= 2
        /\ queues[QueueName(a)][1] = lastRun.message
        /\ queues[QueueName(a)][2] # queues[QueueName(a)][1]

\* C12: an agent never holds more than one delivered and unacknowledged
\* message, a handler is in progress exactly while it holds one, and an agent
\* whose consumer is idle with a message waiting can take it whatever the other
\* agents' handlers are doing.
C12_OneInFlight ==
    /\ \A a \in Agents :
          /\ unacked[a] <= 1
          /\ cbPc[a] \in {"handling", "returned"} <=> unacked[a] = 1
    /\ \A a \in Agents :
          (listening[a] /\ cbPc[a] = "idle" /\ queues[QueueName(a)] # <<>>)
          => ENABLED Deliver(a)

\* One agent has not yet acknowledged the envelope it holds and a second
\* envelope waits behind it, while another agent is inside its own handler.
C12_Witness ==
    \E a, b \in Agents :
        /\ a # b
        /\ cbPc[a] \in {"handling", "returned"}
        /\ unacked[a] = 1
        /\ Len(queues[QueueName(a)]) >= 2
        /\ cbPc[b] = "handling"

\* C13: an envelope an agent sends to a running agent R is put in the queue R
\* consumes (so that it can be delivered to R's handler and to nobody else).
C13_SentReachesReceiverQueue ==
    [][\A a \in Agents :
          (cbPc[a] = "handling" /\ cbPc'[a] # "handling")
          => \A i \in 1..Len(lastRun'.run.sent) :
                LET envelope == lastRun'.run.sent[i]
                    R == envelope.receiver
                IN (R \in Agents /\ started[R] /\ ~stopped[R])
                   => /\ QueueName(R) \in DOMAIN queues'
                      /\ \E j \in 1..Len(queues'[QueueName(R)]) :
                            queues'[QueueName(R)][j] = envelope]_vars

\* ------------------------------------------------------------ worker claims
Workers == {"DeveloperAgent", "TestingAgent"}

\* The last handler call was a worker consuming a task-assignment (the
\* developer takes one only when it carries a prompt).
C14_Case ==
    /\ lastRun.agent \in Workers
    /\ lastRun.message.type = "TASK_ASSIGNMENT"
    /\ lastRun.agent = "DeveloperAgent" => Get(lastRun.message.payload, "prompt", FALSE)

\* C14: a worker that consumed a task-assignment has sent exactly one
\* task-execution-result, to the sender of the assignment, and it is the last
\* envelope of that task.
C14_OneTerminalResult ==
    C14_Case
    => LET sent == lastRun.run.sent
           results == OfType(sent, "TASK_EXECUTION")
       IN /\ Len(results) = 1
          /\ results[1].receiver = lastRun.message.sender
          /\ sent[Len(sent)].type = "TASK_EXECUTION"

\* -------------------------------------------------------- dispatch claims
\* The message types process_message has a branch for, per agent program.
RecognisedTypes(a) ==
    CASE a = "ManagerAgent" -> RequirementTypes \cup {"PROGRESS_UPDATE", "TASK_EXECUTION"}
      [] a = "DeveloperAgent" -> {"TASK_ASSIGNMENT"}
      [] OTHER -> {"TEST_REQUEST", "TEST_GENERATION_REQUEST", "TASK_ASSIGNMENT"}

MessageTypes ==
    UNION {RecognisedTypes(a) : a \in Agents}
        \cup {"STATUS_UPDATE", "RESUME_PROJECT", "FEEDBACK", ""}

\* One envelope of any type in the queue of any agent.
DispatchInbox(a) ==
    {Envelope(s, a, t, p) :
        s \in {"ServiceManager", "ManagerAgent"},
        t \in MessageTypes,
        p \in {EmptyDict,
               [prompt |-> TRUE, requirement |-> TRUE,
                project_config |-> [file_server_folder |-> 1]]}}

InitDispatch ==
    /\ registry = Registered(Agents)
    /\ now = 0
    /\ resp = NoResponse
    /\ sweepPc = "sleep"
    /\ sweepWake = SWEEP_INTERVAL
    /\ sweepStale = {}
    /\ sweepChecked = -1
    /\ lock = "none"
    /\ calls = [t \in Threads |-> NoCall]
    /\ queue_name = [a \in Agents |-> DefaultQueueName(a)]
    /\ unacked = [a \in Agents |-> 0]
    /\ stopped = [a \in Agents |-> FALSE]
    /\ \E a \in Agents : \E m \in DispatchInbox(a) :
         queues = [q \in {DefaultQueueName(b) : b \in Agents} |->
                      IF q = DefaultQueueName(a) THEN <<m>> ELSE <<>>]
    /\ started = [a \in Agents |-> TRUE]
    /\ listening = [a \in Agents |-> TRUE]
    /\ cbPc = [a \in Agents |-> "idle"]
    /\ busUp = TRUE
    /\ nproj = 1
    /\ files = [f \in {1} |-> StartedLog]
    /\ published = 0
    /\ lastRun = NoRun
    /\ RetryIdle
    /\ ServiceRunning

SpecDispatch == InitDispatch /\ [][NextController]_vars

\* C15: handling an envelope whose type the agent has no branch for publishes
\* nothing, writes nothing, changes no queue, file or registry record, and
\* returns normally, so that the message is acknowledged and the agent keeps
\* listening.
C15_UnknownTypeDropped ==
    [][\A a \in Agents :
          (/\ cbPc[a] = "handling" /\ cbPc'[a] # "handling"
           /\ Head(queues[QueueName(a)]).type \notin RecognisedTypes(a))
          => /\ lastRun'.agent = a
             /\ lastRun'.run.sent = <<>>
             /\ lastRun'.run.writes = <<>>
             /\ lastRun'.run.clarifications = <<>>
             /\ lastRun'.run.forwarded = <<>>
             /\ ~lastRun'.run.caught
             /\ queues' = queues /\ files' = files /\ nproj' = nproj
             /\ registry' = registry
             /\ cbPc'[a] = "returned"
             /\ listening'[a]]_vars

\* The tester has returned from handling a status update, a type it has no
\* branch for.
C15_Witness ==
    /\ lastRun.agent = "TestingAgent"
    /\ lastRun.message.type = "STATUS_UPDATE"
    /\ cbPc["TestingAgent"] = "returned"
    /\ lastRun.run.sent = <<>>

\* --------------------------------------------------- oracle response claims
KnownActions == {"assign_task", "clarification", "project_completed"}

\* The oracle's answer to the last manager decision is invalid: not a JSON
\* object, an unknown action, assign_task without an agent, or a clarification
\* without a question.
InvalidOracleResponse ==
    LET llm == lastRun.inputs.llm IN
    \/ ~llm.is_object
    \/ /\ "action" \in DOMAIN llm.value
       /\ \/ llm.value.action \notin KnownActions
          \/ llm.value.action = "assign_task" /\ Get(llm.value, "selected_agent", "") = ""
          \/ llm.value.action = "clarification" /\ Get(llm.value, "clarifications", <<>>) = <<>>

\* C16: in the initial and in the post-task decision, an invalid oracle response
\* ends in exactly one clarification request that carries a question; it
\* publishes no task-assignment and does not mark the project completed.
C16_InvalidOracleBecomesClarification ==
    (/\ lastRun.agent = Manager
     /\ lastRun.message.type \in RequirementTypes \cup {"TASK_EXECUTION"}
     /\ InvalidOracleResponse)
    => LET run == lastRun.run IN
       /\ Len(run.clarifications) = 1
       /\ run.clarifications[1].questions # <<>>
       /\ OfType(run.sent, "TASK_ASSIGNMENT") = <<>>
       /\ \A i \in 1..Len(run.writes) :
             \A j \in 1..Len(run.writes[i].content) :
                run.writes[i].content[j] \notin {"Project marked as completed",
                                                "No valid next step"}

\* ------------------------------------------------------------------- C17
\* C17: POST /register answers 400 and leaves the registry unchanged exactly
\* when agent_name or capabilities is missing from the body; for every body in
\* which both fields are present it answers 200 and the record is stored.
C17_RegisterRejectsOnlyMissing ==
    [][\A body \in RegisterBodies :
          register_request(body)
          => IF "agent_name" \in DOMAIN body /\ "capabilities" \in DOMAIN body
             THEN /\ resp'.status = 200
                  /\ body.agent_name \in DOMAIN registry'
                  /\ registry'[body.agent_name].capabilities = body.capabilities
             ELSE /\ resp'.status = 400
                  /\ registry' = registry]_vars

\* ------------------------------------------------------------------- C18
\* C18: GetCapabilities(name) signals not found (404) if and only if name has
\* no record in the registry; for every name that has a record it answers 200
\* with that record's capability set.
C18_NotFoundIffAbsent ==
    /\ [](\A n \in RegistryNames :
            get_capabilities(registry, n) = <<>> <=> n \notin DOMAIN registry)
    /\ [][http_get_capabilities
            => /\ resp'.status = 404 <=> resp'.name \notin DOMAIN registry
               /\ resp'.name \in DOMAIN registry
                    => /\ resp'.status = 200
                       /\ resp'.capabilities = registry[resp'.name].capabilities]_vars

\* GetCapabilities of a registered name answered 200 with the two capabilities
\* of its record while the other name, never found, has no record.
C18_Witness ==
    /\ resp.op = "get_capabilities"
    /\ resp.status = 200
    /\ resp.name = "Worker2"
    /\ resp.capabilities = <<"build", "test">>
    /\ "Worker2" \in DOMAIN registry
    /\ registry["Worker2"].capabilities = <<"build", "test">>
    /\ "Worker1" \notin DOMAIN registry

\* ------------------------------------------------------------------- C19
\* C19: Unregister(A) removes A's record when present, after which
\* GetCapabilities(A) signals not found and ListAgents omits A; when A is absent
\* the registry is unchanged; in both cases every other agent's record
\* (capabilities and timestamp) is unchanged and ListAgents is the previous
\* mapping without A.
C19_UnregisterFrame ==
    [][\A A \in RegistryNames :
          (http_unregister /\ resp'.status = 200 /\ resp'.name = A)
          => /\ A \notin DOMAIN registry'
             /\ get_capabilities(registry', A) = <<>>
             /\ A \notin DOMAIN list_agents(registry')
             /\ A \notin DOMAIN registry => registry' = registry
             /\ \A b \in DOMAIN registry \ {A} :
                   b \in DOMAIN registry' /\ registry'[b] = registry[b]
             /\ DOMAIN list_agents(registry') = DOMAIN list_agents(registry) \ {A}
             /\ \A b \in DOMAIN list_agents(registry') :
                   list_agents(registry')[b] = list_agents(registry)[b]]_vars

\* Worker1 was unregistered (answered 200) and has no record, while Worker2's
\* record, written at an earlier time, is still there.
C19_Witness ==
    /\ resp.op = "unregister"
    /\ resp.status = 200
    /\ resp.name = "Worker1"
    /\ "Worker1" \notin DOMAIN registry
    /\ "Worker2" \in DOMAIN registry
    /\ registry["Worker2"].capabilities = <<"build", "test">>
    /\ registry["Worker2"].last_heartbeat < now

\* ------------------------------------------------------------------- C20
\* C20: when a shutdown is requested while a handler is in flight, the agent
\* does not reach Stopped until that handler has finished and its message is
\* acknowledged: no agent stops with its callback inside the handler or before
\* the acknowledgement, and no delivered message is left unacknowledged.
C20_ShutdownFinishesHandler ==
    [][\A a \in Agents :
          (~stopped[a] /\ stopped'[a])
          => /\ cbPc[a] \notin {"handling", "returned"}
             /\ unacked[a] = 0]_vars

\* ------------------------------------------------------------------- C21
EnvelopeFields == {"message_id", "sender", "receiver", "timestamp", "type", "payload"}

\* C21: serialising an envelope and deserialising it again, including when the
\* Controller forwards a received envelope onward, yields the same message_id,
\* sender, receiver, timestamp, type and payload, and an envelope without a
\* progress field still has none.
C21_EnvelopeRoundTrip ==
    /\ wire.pc \in {"received", "forwarded"} => wire.received = wire.message
    /\ wire.pc = "forwarded"
         => /\ \A k \in EnvelopeFields :
                  wire.frontend.items[k] = wire.message.items[k]
            /\ "progress" \notin DOMAIN wire.message.items
                  => "progress" \notin DOMAIN wire.frontend.items

\* The part of C21 the bus satisfies: what the callback decodes is what
\* send_message encoded.
C21_BusRoundTrip ==
    wire.pc \in {"received", "forwarded"} => wire.received = wire.message

\* ------------------------------------------------------------ C22 .. C26
\* The retry engine has handled rtMsg; what the spec expects of its attempts.
Handled == rtRun.agent # "none"
Validates == Get(rtMsg.payload, "test_locally", TRUE)
Succeeds(n) == rtGen[n] /\ (~Validates \/ rtVal[n])
ExpectedError(n) == IF rtGen[n] THEN TestError(n) ELSE NoFilesError
TerminalPayload(run) ==
    LET i == CHOOSE i \in 1..Len(run.sent) : run.sent[i].type = "TASK_EXECUTION"
    IN run.sent[i].payload

\* C22: every progress-update a worker sends while handling a task carries a
\* progress value in [0,1] (0..100 hundredths), no envelope of another type
\* carries a progress field, and sending a progress-update never raises.
C22_ProgressAccepted ==
    Handled
    => /\ ~rtRun.run.caught
       /\ \A i \in 1..Len(rtRun.run.sent) :
             LET e == rtRun.run.sent[i] IN
             IF e.type = "PROGRESS_UPDATE"
             THEN e.payload.progress \in 0..100
             ELSE "progress" \notin DOMAIN e.payload

\* C23: an attempt whose generation yields nothing still consumes an attempt and
\* runs no validation; a generation function that always yields nothing leads
\* to exactly MAX_ATTEMPTS generation calls, no validation call and a terminal
\* failure carrying the no-output error.
C23_EmptyAttemptCounts ==
    (Handled /\ \A n \in 1..MAX_GENERATION_ATTEMPTS : ~rtGen[n])
    => /\ rtRun.run.genCalls = MAX_GENERATION_ATTEMPTS
       /\ rtRun.run.valCalls = 0
       /\ TerminalStatus(rtRun.run) = "failure"
       /\ TerminalPayload(rtRun.run).last_error_message = NoFilesError

\* C24: attempt 1 receives no error; every attempt n > 1 runs when attempt n-1
\* did not succeed, and receives the error of attempt n-1 and the artifact of
\* the most recent earlier attempt that failed validation (the payload's prior
\* artifact if there is none).
C24_CarriedState ==
    Handled
    => /\ rtRun.run.genCalls >= 1
       /\ rtRun.run.genArgs[1].error_message = NoError
       /\ \A n \in 2..MAX_GENERATION_ATTEMPTS :
             (\A j \in 1..(n - 1) : ~Succeeds(j))
             => /\ rtRun.run.genCalls >= n
                /\ rtRun.run.genArgs[n].error_message = ExpectedError(n - 1)
                /\ LET failed == {j \in 1..(n - 1) : rtGen[j]} IN
                   rtRun.run.genArgs[n].previous_code
                     = IF failed = {}
                       THEN Get(rtMsg.payload, "previous_code", 0)
                       ELSE CHOOSE j \in failed : \A i \in failed : i <= j

\* C25: when the loop ends without success the terminal result has status
\* failure and carries the error of the last failed attempt; when it ends with
\* success the terminal result has status success and carries no error.
C25_TerminalOutcome ==
    Handled
    => IF \E n \in 1..MAX_GENERATION_ATTEMPTS : Succeeds(n)
       THEN /\ TerminalStatus(rtRun.run) = "success"
            /\ "last_error_message" \notin DOMAIN TerminalPayload(rtRun.run)
       ELSE /\ TerminalStatus(rtRun.run) = "failure"
            /\ TerminalPayload(rtRun.run).last_error_message
                  = ExpectedError(MAX_GENERATION_ATTEMPTS)

\* C26: with validation disabled, the first attempt whose generation yields an
\* artifact ends the loop with terminal success; no validation call is made and
\* no later attempt runs.
C26_NoValidationFirstSuccess ==
    \A k \in 1..MAX_GENERATION_ATTEMPTS :
        (/\ Handled
         /\ ~Validates
         /\ rtGen[k]
         /\ \A j \in 1..(k - 1) : ~rtGen[j])
        => /\ rtRun.run.genCalls = k
           /\ rtRun.run.valCalls = 0
           /\ TerminalStatus(rtRun.run) = "success"

\* ------------------------------------------------------------------- C27
\* The manager has just decided on a task-execution result and the oracle
\* answered project_completed.
CompletedDecision(run) ==
    /\ run.agent = Manager
    /\ run.message.type = "TASK_EXECUTION"
    /\ run.inputs.llm.is_object
    /\ Get(run.inputs.llm.value, "action", "") = "project_completed"

ProjectFolder(run) ==
    Get(Get(run.message.payload, "project_config", EmptyDict), "file_server_folder", 0)

\* C27: when the oracle answers project_completed after a task-execution
\* result, the controller appends one completion note to the status log and
\* publishes no envelope to any queue in that transition.
C27_CompletionPublishesNothing ==
    [][(lastRun' # lastRun /\ CompletedDecision(lastRun'))
         => /\ queues' = queues
            /\ lastRun'.run.sent = <<>>
            /\ files' = Put(files, ProjectFolder(lastRun'),
                            Append(read_file_from_server(files, ProjectFolder(lastRun')),
                                   "Project marked as completed"))]_vars

\* The manager handled a task-execution result of a started project, the
\* oracle answered project_completed, and the log ends with the one note.
C27_Witness ==
    /\ CompletedDecision(lastRun)
    /\ lastRun.message.sender = "DeveloperAgent"
    /\ files[1] = Append(StartedLog, "Project marked as completed")
    /\ lastRun.run.sent = <<>>
    /\ \A a \in Agents \ {Manager} : queues[QueueName(a)] = <<>>

\* ------------------------------------------------------------------- C28
\* The manager has just decided on a requirement and the oracle answered
\* clarification.
ClarificationDecision(run) ==
    /\ run.agent = Manager
    /\ run.message.type \in RequirementTypes
    /\ run.inputs.llm.is_object
    /\ Get(run.inputs.llm.value, "action", "") = "clarification"

\* The run published a task-assignment for the project of folder k.
AssignsProject(run, k) ==
    \E i \in 1..Len(run.sent) :
        /\ run.sent[i].type = "TASK_ASSIGNMENT"
        /\ ProjectFolder([message |-> run.sent[i]]) = k

C28_ClarificationStep ==
    [][(lastRun' # lastRun /\ ClarificationDecision(lastRun'))
         => /\ Len(lastRun'.run.clarifications) = 1
            /\ OfType(lastRun'.run.sent, "TASK_ASSIGNMENT") = <<>>]_vars

\* ------------------------------------------------------------------- C29
\* C29: the status log gains a timeline entry in every manager transition that
\* decides a workflow step (clarification requested, task assigned, project
\* completed) or handles a failure (handler exception, invalid oracle
\* response): no such transition leaves every status log as it was.
C29_StatusLogRecordsEveryStep ==
    [][(/\ lastRun' # lastRun
        /\ lastRun'.agent = Manager
        /\ lastRun'.message.type \in RequirementTypes \cup {"TASK_EXECUTION"})
         => \E k \in DOMAIN files' :
               Len(files'[k]) > Len(read_file_from_server(files, k))]_vars

\* ------------------------------------------------------------------- C30
\* C30: a failure of the registry call at construction (registry unreachable or
\* answering non-200) or of any heartbeat call never prevents or stops the
\* listen activity: every started agent is consuming its queue and its
\* heartbeat loop is running, able to take its next delivery and to send its
\* next heartbeat.
C30_RegistryFailureNotFatal ==
    \A a \in Agents :
        started[a]
        => /\ listening[a]
           /\ heartbeating[a]
           /\ QueueName(a) \in DOMAIN queues
           /\ ENABLED HeartbeatLoop(a)
           /\ (cbPc[a] = "idle" /\ queues[QueueName(a)] # <<>>) => ENABLED Deliver(a)

\* The developer was constructed while the registry could not register it, has
\* taken a delivery from its queue and is heartbeating at a later time, the
\* registry being up again.
C30_Witness ==
    /\ started["DeveloperAgent"]
    /\ "DeveloperAgent" \notin DOMAIN registry
    /\ "TestingAgent" \in DOMAIN registry
    /\ registry["TestingAgent"].last_heartbeat > 0
    /\ cbPc["DeveloperAgent"] = "handling"
    /\ heartbeating["DeveloperAgent"]
    /\ registryMode = "up"
    /\ now > 0

\* ------------------------------------------------------------------- C31
\* Both activities of a running agent are running.
C31_RunningKeepsBoth ==
    \A a \in Agents : (started[a] /\ ~stopped[a]) => (listening[a] /\ heartbeating[a])

\* C31: the runtime follows Uninitialized -> Registered -> Running ->
\* ShuttingDown -> Stopped: nothing is consumed and no heartbeat runs before the
\* constructor has issued Register, both activities run while the agent is
\* running, and on shutdown both activities have been stopped before the agent
\* reaches Stopped.
C31_Lifecycle ==
    /\ [](\A a \in Agents :
            (listening[a] \/ heartbeating[a] \/ cbPc[a] # "idle" \/ unacked[a] > 0)
            => started[a])
    /\ []C31_RunningKeepsBoth
    /\ [][\A a \in Agents :
            (~stopped[a] /\ stopped'[a]) => (~listening[a] /\ ~heartbeating[a])]_vars

\* ------------------------------------------------------------------- C32
\* C32: a registered agent whose heartbeats reach the registry with gaps of at
\* most the eviction timeout is never returned by the sweep's CheckHealth and
\* never unregistered by the sweep.
C32_TimelyAgentNeverEvicted ==
    /\ [](TimelyAgent \notin sweepStale)
    /\ [][SweepCheck => TimelyAgent \notin check_agent_health(registry, now, SWEEP_TIMEOUT)]_vars
    /\ [][(SweepUnregister /\ TimelyAgent \in DOMAIN registry)
            => (/\ TimelyAgent \in DOMAIN registry'
                /\ registry'[TimelyAgent] = registry[TimelyAgent])]_vars

\* The sweep has just checked while the timely agent's last heartbeat was
\* exactly the timeout old, and found another agent stale but not this one.
C32_Witness ==
    /\ sweepPc = "unreg"
    /\ sweepChecked = now
    /\ TimelyAgent \in DOMAIN registry
    /\ now - registry[TimelyAgent].last_heartbeat = SWEEP_TIMEOUT
    /\ sweepStale = {"Worker2"}

\* ------------------------------------------------------------------- C33
\* C33: after startup a running agent only sends heartbeats and never calls
\* Register again, so an agent evicted while alive stays absent from
\* ListAgents for the rest of its run.
C33_EvictedStaysAbsent ==
    [][\A a \in Agents :
          /\ (started[a] /\ a \notin DOMAIN list_agents(registry)) => a \notin DOMAIN list_agents(registry')
          /\ (started[a] /\ a \in DOMAIN list_agents(registry) /\ a \in DOMAIN list_agents(registry'))
                => list_agents(registry')[a] = list_agents(registry)[a]]_vars

\* A heartbeating agent has been removed by a sweep pass that has finished.
C33_Witness ==
    \E a \in Agents :
        /\ started[a]
        /\ heartbeating[a]
        /\ registryMode = "up"
        /\ a \notin DOMAIN list_agents(registry)
        /\ sweepChecked >= 0
        /\ sweepPc = "sleep"

\* ------------------------------------------------------------------- C34
\* C34: any two envelopes constructed by send_message have different
\* message_id values, and of two envelopes sent by the same agent the later
\* one has the larger message_id.
C34_MessageIdsUniqueAndIncreasing ==
    wire.pc = "log" =>
        \A i, j \in DOMAIN wire.sent :
            i < j =>
                /\ wire.sent[i].items["message_id"] # wire.sent[j].items["message_id"]
                /\ wire.sent[i].items["sender"] = wire.sent[j].items["sender"]
                     => message_id_value(wire.sent[i]) < message_id_value(wire.sent[j])

\* ------------------------------------------------------------------- C35
\* What a registry method called alone on the map reg leaves and returns.
C35_SequentialState(c, reg, t) ==
    CASE c.method = "register" -> register(reg, c.agent_name, <<"general">>, t)
      [] c.method = "heartbeat" -> heartbeat(reg, c.agent_name, t)
      [] c.method = "unregister" -> unregister(reg, c.agent_name)
      [] OTHER -> reg

C35_SequentialResult(c, reg) ==
    CASE c.method = "get_capabilities" -> <<get_capabilities(reg, c.agent_name)>>
      [] c.method = "list_agents" -> <<list_agents(reg)>>
      [] c.method = "check_agent_health" ->
             <<check_agent_health(reg, c.at, DEFAULT_HEALTH_TIMEOUT)>>
      [] OTHER -> <<>>

\* C35: every registry operation executes atomically with respect to every
\* other: the threads' operations take effect one after another, each leaving
\* the map and returning the result that the operation called alone on the
\* map it found would, and the lock is held only while the method body
\* accesses the map, never while a route reads a request or answers it.
C35_OperationsAtomic ==
    /\ [](\A t \in Threads : (calls[t].pc \in {"locked", "tested", "acted"}) <=> (lock = t))
    /\ [](\A t \in Threads :
            calls[t].pc \in {"locked", "tested"} => registry = calls[t].entry)
    /\ [][\A t \in Threads :
            (calls[t].pc = "tested" /\ calls'[t].pc = "acted") =>
                /\ ~calls'[t].exc
                /\ registry' = C35_SequentialState(calls[t], calls[t].entry, now)
                /\ calls'[t].result = C35_SequentialResult(calls[t], calls[t].entry)]_vars

\* One thread has removed an agent under the lock while the other, which
\* asked for a heartbeat of the same agent, is waiting for the lock.
C35_Witness ==
    /\ calls["t1"].pc = "acted"
    /\ calls["t1"].method = "unregister"
    /\ calls["t1"].agent_name \in DOMAIN calls["t1"].entry
    /\ calls["t2"].pc = "called"
    /\ calls["t2"].method = "heartbeat"
    /\ calls["t2"].agent_name = calls["t1"].agent_name
    /\ lock = "t1"

\* ------------------------------------------------------------------- C36
\* C36: the sweep never removes an agent whose record is fresh at the moment
\* of removal: an agent that heartbeats or registers again between the
\* sweep's check_agent_health and its unregister is still present afterwards.
C36_SweepRemovesOnlyStale ==
    [][SweepUnregister =>
          \A agent \in DOMAIN registry \ DOMAIN registry' :
              now - registry[agent].last_heartbeat > SWEEP_TIMEOUT]_vars

\* ------------------------------------------------------------------- C37
\* The progress values of the progress updates a handler call sent, in order.
C37_ProgressValues(run) ==
    LET updates == SelectSeq(run.sent, LAMBDA e : e.type = "PROGRESS_UPDATE")
    IN [i \in 1..Len(updates) |-> updates[i].payload.progress]

C37_NeverDecreases(run) ==
    LET p == C37_ProgressValues(run) IN
    \A i, j \in 1..Len(p) : i < j => p[i] <= p[j]

C38_ResponseContinuesProject ==
    [][(/\ lastRun' # lastRun
        /\ lastRun'.agent = Manager
        /\ lastRun'.message.type = "CLARIFICATION_RESPONSE")
         => /\ nproj' = nproj
            /\ DOMAIN files' = DOMAIN files
            /\ \A i \in 1..Len(lastRun'.run.writes) :
                  lastRun'.run.writes[i].folder \in DOMAIN files]_vars

\* ------------------------------------------------------------------- C39
\* The outcome a worker's task-execution result reports: the developer's
\* code_generation_status, the tester's test_execution_status.
C39_Reported(payload) ==
    IF "code_generation_status" \in DOMAIN payload THEN payload.code_generation_status
    ELSE payload.test_execution_status

\* C39: the task outcome the manager presents to the oracle equals the outcome
\* the worker reported: a task-execution result of a developer or a tester
\* that reports success is never presented as a failure, and one that reports
\* failure is never presented as a success.
C39_PresentedOutcomeIsReported ==
    (/\ lastRun.agent = Manager
     /\ lastRun.message.type = "TASK_EXECUTION"
     /\ {"code_generation_status", "test_execution_status"}
            \cap DOMAIN lastRun.message.payload # {})
    => /\ Len(lastRun.run.asked) = 1
       /\ lastRun.run.asked[1].status = C39_Reported(lastRun.message.payload)

\* ------------------------------------------------------------------- C40
\* C40: a status-update envelope never causes another envelope to be
\* published: the manager, the developer and the tester each drop it.
C40_StatusUpdateDropped ==
    [][\A a \in Agents :
          (/\ cbPc[a] = "handling" /\ cbPc'[a] # "handling"
           /\ Head(queues[QueueName(a)]).type = "STATUS_UPDATE")
          => /\ lastRun'.agent = a
             /\ lastRun'.run.sent = <<>>
             /\ lastRun'.run.forwarded = <<>>
             /\ lastRun'.run.clarifications = <<>>
             /\ queues' = queues]_vars

\* The manager has returned from handling a status update another service
\* sent it.
C40_Witness ==
    /\ lastRun.agent = Manager
    /\ lastRun.message.type = "STATUS_UPDATE"
    /\ lastRun.message.sender # Manager
    /\ cbPc[Manager] = "returned"
    /\ lastRun.run.sent = <<>>

====
